---- MODULE Spec2Model ----
(***************************************************************************)
(* chunkdrive: the block tree (Direct / Indirect / StoredBlock), the       *)
(* Stored indirection layer and the bucket selector, modelled as a state   *)
(* machine over the contents of the buckets.                               *)
(*                                                                         *)
(* Every block operation is an async fn that awaits one Source operation   *)
(* after the other; an action of this module runs one whole top-level      *)
(* operation and records the backend operations it issued, in order, in    *)
(* last.log.  The operations thread a "world" record                       *)
(*   [store, nextd, log, nops, fails, orc, pi]                             *)
(* store : (bucket, descriptor) -> blob, the contents of the buckets       *)
(* nextd : the next descriptor a Source hands out                          *)
(* log   : the backend operations issued so far by this operation          *)
(* nops  : their number; fails: the positions at which the backend fails   *)
(* orc,pi: the outcomes of rand::thread_rng() and how many were consumed   *)
(***************************************************************************)
EXTENDS Integers, Sequences, FiniteSets, TLC

\* store : the contents of the buckets, (bucket, descriptor) -> blob
\* nextd : the next descriptor a Source hands out
\* tree  : the block the caller holds (NoTree before create and after delete)
\* last  : the last operation, what it was given and what it returned
\* direct_block_count : Global.direct_block_count, fixed by the configuration
\* buckets : Global.buckets, the max_size of every configured bucket
VARIABLES store, nextd, tree, last, direct_block_count, buckets

vars == <<store, nextd, tree, last, direct_block_count, buckets>>

\* ---------------------------------------------------------------- bounds
MaxLen == 6          \* longest byte vector given to create
MaxStart == 1        \* largest start offset given to create
MaxPutStart == 2     \* largest range.start given to put
OrcLen == 3          \* period of the sequence of random picks
MaxFaultPos == 8     \* a backend fault is injected at one of the first ops
SmallMax == 1        \* max_size of bucket "a"
BigMax == 64         \* max_size of bucket "c"
MaxFanout == 2       \* largest direct_block_count configured
MaxPuts == 2         \* longest sequence of puts on one tree
MaxChildren == 3     \* most children of a block value given to Stored
MaxNameLen == 3      \* longest bucket name given to as_url
MaxDescLen == 1      \* longest descriptor given to as_url
MaxExt == 2          \* most bytes a put appends to what create was given
MaxDepth == 8        \* deepest recursion of create that is followed
InodeMax == 128      \* max_size of bucket "c" where inodes are stored
MaxFileLen == 2      \* longest byte vector given to File::create
MaxOps == 4          \* longest sequence of calls on the directories
MaxFaultOps == 3     \* the same, when the backend may fail
MaxShellOps == 3     \* longest sequence of shell commands
MaxCwd == 2          \* deepest directory the shell enters
MaxMoveOps == 4      \* longest sequence of shell commands around cut and paste
MaxTreeOps == 4      \* longest sequence of shell commands around up_tree
MaxExitOps == 4      \* longest sequence of shell commands up to the exit
MaxCwdOps == 5       \* longest sequence of shell commands around cd
MaxTaskLen == 3      \* longest byte vector given to a concurrent create

\* ------------------------------------------------------------ configuration
\* the longest byte vector given to put: one byte of extension
MaxPutLen == MaxLen + 1

BucketOrder == <<"a", "c">>

BucketNames == {BucketOrder[i] : i \in 1..Len(BucketOrder)}

\* Bucket::max_size of the configured buckets (no encryption configured)
max_size(b) == buckets[b]

\* Global::get_direct_block_count
get_direct_block_count == direct_block_count

None == "None"

NoVal == <<>>

\* ----------------------------------------------------------------- helpers
Min(a, b) == IF a < b THEN a ELSE b

\* data[a..b] of Rust: 0-based, half open
Slice(data, a, b) == SubSeq(data, a + 1, b)

\* the byte vector of n bytes base+1, base+2, ... (each byte differs from its
\* neighbours, so a misplaced slice is visible)
Bytes(n, base) == [i \in 1..n |-> (base + i) % 256]

\* Result<T, String>: st is "ok", "err" or "panic" (the process aborts); err is
\* the error string, kept as the list of the errors joined into it
Ok(w, val) == [w |-> w, st |-> "ok", val |-> val, err |-> <<>>]

Err(w, val, err) == [w |-> w, st |-> "err", val |-> val, err |-> err]

Panic(w) == [w |-> w, st |-> "panic", val |-> NoVal, err |-> <<>>]

\* fut.await: the future is driven to completion, then the code goes on with
\* its result
Await(r, K(_)) == K(r)

E(what, b, d) == <<<<what, b, d>>>>

World(s, nd, fails, orc) ==
    [store |-> s, nextd |-> nd, log |-> <<>>, nops |-> 0, fails |-> fails,
     orc |-> orc, pi |-> 0, supply |-> <<>>, sent |-> <<>>]

\* ------------------------------------------------- serialized sizes (rmp_serde)
\* MessagePack, struct-map mode: a struct is a map keyed by field name, an
\* enum variant a one-entry map keyed by its tag.
IntSize(n) == IF n < 128 THEN 1 ELSE IF n < 256 THEN 2 ELSE IF n < 65536 THEN 3 ELSE 5

StrSize(s) == 1 + Len(s)

\* Stored {"b": bucket, "d": descriptor}; a descriptor is a one-byte Vec<u8>
StoredSize(s) == 1 + 2 + StrSize(s.bucket) + 2 + 1 + IntSize(s.descriptor)

RECURSIVE SerSize(_), SumSizes(_, _)
\* BlockType: "d" {"s": Stored, "r": [start, end]}, "i" {"b": [...]}, "s" {"s": Stored}
SerSize(blk) ==
    IF blk.t = "d"
    THEN 3 + 1 + 2 + StoredSize(blk.stored) + 2 + 1 + IntSize(blk.start) + IntSize(blk.end)
    ELSE IF blk.t = "s"
    THEN 3 + 1 + 2 + StoredSize(blk.stored)
    ELSE 3 + 1 + 2 + 1 + SumSizes(blk.blocks, 1)

SumSizes(blocks, i) ==
    IF i > Len(blocks) THEN 0 ELSE SerSize(blocks[i]) + SumSizes(blocks, i + 1)

\* Metadata {size, created, modified}: the size is an enum variant holding a
\* count, the two times are 32-bit integers
MetadataSize(md) == 1 + (2 + 3 + IntSize(md.size.n)) + (2 + 5) + (2 + 5)

RECURSIVE ChildrenSize(_, _)
\* the entries of Directory.children: a name and a Stored each
ChildrenSize(children, names) ==
    IF names = {} THEN 0
    ELSE LET n == CHOOSE x \in names : TRUE
         IN StrSize(n) + StoredSize(children[n]) + ChildrenSize(children, names \ {n})

\* InodeType: "f" {"data": IndirectBlock, "metadata": Metadata},
\* "d" {"c": {name: Stored}, "m": Metadata}, "c" skipped when empty
InodeSize(inode) ==
    IF inode.t = "f"
    THEN 3 + 1 + 5 + (1 + 2 + 1 + SumSizes(inode.data.blocks, 1)) + 9 + MetadataSize(inode.metadata)
    ELSE 3 + 1
         + (IF DOMAIN inode.children = {} THEN 0
            ELSE 2 + 1 + ChildrenSize(inode.children, DOMAIN inode.children))
         + 2 + MetadataSize(inode.metadata)

\* Serializer::new(..).with_struct_map(): the blob keeps the type it was
\* serialized from; raw bytes are stored as they are
Serialize(v, ty) ==
    [ty |-> ty, val |-> v,
     len |-> IF ty = "bytes" THEN Len(v)
             ELSE IF ty = "inode" THEN InodeSize(v)
             ELSE SerSize(v)]

EmptyBlob == [ty |-> "empty", val |-> <<>>, len |-> 0]

\* ---------------------------------------------------------------- Global
\* the buckets that accept min_size and are not excluded
Eligible(min_size, exclude) ==
    SelectSeq(BucketOrder, LAMBDA b : max_size(b) >= min_size /\ b \notin exclude)

\* a mutant of Global::next_bucket: the filter on max_size is dropped
next_bucket_nofilter(min_size, exclude, pick) ==
    LET e == SelectSeq(BucketOrder, LAMBDA b : b \notin exclude)
    IN IF Len(e) = 0 THEN None ELSE e[(pick % Len(e)) + 1]

\* Global::next_bucket: choose(&mut rand::thread_rng()) among the eligible
next_bucket(min_size, exclude, pick) ==
    LET e == Eligible(min_size, exclude)
    IN IF Len(e) = 0 THEN None ELSE e[(pick % Len(e)) + 1]

Pick(w) == w.orc[(w.pi % Len(w.orc)) + 1]

Picked(w) == [w EXCEPT !.pi = @ + 1]

\* ------------------------------------------------------- Bucket / Source
Faulty(w) == (w.nops + 1) \in w.fails

\* an entry of the log: the operation, its bucket and descriptor, the length
\* and type of the payload of a put, and whether the backend performed it
Logged(w, op, b, d, blob, ok) ==
    [w EXCEPT !.log = Append(@, [op |-> op, bucket |-> b, desc |-> d, len |-> blob.len,
                                 ty |-> blob.ty, ok |-> ok]),
              !.nops = @ + 1,
              !.sent = Append(@, blob)]

\* the descriptor the next Source::create hands out: the next of the counter
\* or, in a run that is played again, the one it handed out the first time
Fresh(w) == IF w.supply = <<>> THEN w.nextd ELSE Head(w.supply)

\* Source::create: reserve a new, empty slot
BucketCreate(w, b) ==
    IF Faulty(w) THEN Err(Logged(w, "create", b, 0, EmptyBlob, FALSE), NoVal, E("create", b, 0))
    ELSE Ok([Logged(w, "create", b, Fresh(w), EmptyBlob, TRUE) EXCEPT
                !.nextd = IF w.supply = <<>> THEN @ + 1 ELSE @,
                !.supply = IF @ = <<>> THEN @ ELSE Tail(@),
                !.store = (<<b, Fresh(w)>> :> EmptyBlob) @@ @],
            Fresh(w))

\* Source::put: overwrite the blob at the descriptor
BucketPut(w, b, d, blob) ==
    IF Faulty(w) \/ <<b, d>> \notin DOMAIN w.store
    THEN Err(Logged(w, "put", b, d, blob, FALSE), NoVal, E("put", b, d))
    ELSE Ok([Logged(w, "put", b, d, blob, TRUE) EXCEPT
                !.store = [@ EXCEPT ![<<b, d>>] = blob]],
            NoVal)

\* Source::get: fetch the blob
BucketGet(w, b, d) ==
    IF Faulty(w) \/ <<b, d>> \notin DOMAIN w.store
    THEN Err(Logged(w, "get", b, d, EmptyBlob, FALSE), NoVal, E("get", b, d))
    ELSE Ok(Logged(w, "get", b, d, w.store[<<b, d>>], TRUE), w.store[<<b, d>>])

\* Source::delete: remove the blob
BucketDelete(w, b, d) ==
    IF Faulty(w) \/ <<b, d>> \notin DOMAIN w.store
    THEN Err(Logged(w, "delete", b, d, EmptyBlob, FALSE), NoVal, E("delete", b, d))
    ELSE Ok([Logged(w, "delete", b, d, EmptyBlob, TRUE) EXCEPT
                !.store = [h \in (DOMAIN @) \ {<<b, d>>} |-> @[h]]],
            NoVal)

\* ---------------------------------------------------------------- Stored
\* Stored::get: fetch and deserialize as type ty
StoredGet(w, s, ty) ==
    IF s.bucket \notin BucketNames THEN Err(w, NoVal, E("Bucket not found", s.bucket, 0))
    ELSE Await(BucketGet(w, s.bucket, s.descriptor), LAMBDA r :
         IF r.st # "ok" THEN r
         ELSE IF r.val.ty # ty THEN Err(r.w, NoVal, E("decode", s.bucket, s.descriptor))
         ELSE Ok(r.w, r.val.val))

\* a mutant of Stored::put: the bucket is picked again and the value goes to
\* a new descriptor
StoredPut_repick(w, s, v, ty) ==
    IF s.bucket \notin BucketNames THEN Err(w, NoVal, E("Bucket not found", s.bucket, 0))
    ELSE LET bn == next_bucket(0, {}, Pick(w))
         IN Await(BucketCreate(Picked(w), bn), LAMBDA c :
            IF c.st # "ok" THEN c
            ELSE BucketPut(c.w, bn, c.val, Serialize(v, ty)))

\* Stored::put: re-serialize and overwrite the existing descriptor
StoredPut(w, s, v, ty) ==
    IF s.bucket \notin BucketNames THEN Err(w, NoVal, E("Bucket not found", s.bucket, 0))
    ELSE BucketPut(w, s.bucket, s.descriptor, Serialize(v, ty))

\* a mutant of Stored::create: the handle returned names the bucket's first
\* descriptor, not the one that was reserved
StoredCreate_first_descriptor(w, v, ty) ==
    LET blob == Serialize(v, ty)
        bn == next_bucket(blob.len, {}, Pick(w))
        w1 == Picked(w)
    IN IF bn = None THEN Err(w1, NoVal, E("No bucket found", "", blob.len))
       ELSE Await(BucketCreate(w1, bn), LAMBDA c :
            IF c.st # "ok" THEN c
            ELSE Await(BucketPut(c.w, bn, c.val, blob), LAMBDA p :
                 IF p.st # "ok" THEN p
                 ELSE Ok(p.w, [bucket |-> bn, descriptor |-> 1])))

\* Stored::create: serialize, find a bucket, reserve a descriptor, put
StoredCreate(w, v, ty) ==
    LET blob == Serialize(v, ty)
        bn == next_bucket(blob.len, {}, Pick(w))
        w1 == Picked(w)
    IN IF bn = None THEN Err(w1, NoVal, E("No bucket found", "", blob.len))
       ELSE Await(BucketCreate(w1, bn), LAMBDA c :
            IF c.st # "ok" THEN c
            ELSE Await(BucketPut(c.w, bn, c.val, blob), LAMBDA p :
                 IF p.st # "ok" THEN p
                 ELSE Ok(p.w, [bucket |-> bn, descriptor |-> c.val])))

\* Stored::delete
StoredDelete(w, s) ==
    IF s.bucket \notin BucketNames THEN Err(w, NoVal, E("Bucket not found", s.bucket, 0))
    ELSE BucketDelete(w, s.bucket, s.descriptor)

\* ----------------------------------------------------------------- blocks
\* A block is [t |-> "d", stored, start, end], [t |-> "i", blocks] or
\* [t |-> "s", stored].  A get stream is the sequence of its items
\* [ok, chunk, at], at being the logical offset of the leaf the chunk comes
\* from; range and delete return Result, put returns Result with the
\* block as the call left it (put takes &mut self) in val.
Range(s, e) == [start |-> s, end |-> e]

Indirect(blocks) == [t |-> "i", blocks |-> blocks]

Stream(w, items) == [w |-> w, items |-> items]

RECURSIVE BlockRange(_, _), BlockGet(_, _, _), BlockPut(_, _, _, _), BlockDelete(_, _)
RECURSIVE IndirectCreate(_, _, _)
RECURSIVE GetLoop(_, _, _, _), PutLoop(_, _, _, _, _), DeleteLoop(_, _, _, _)
RECURSIVE AppendLoop(_, _, _, _, _), CreateLoop(_, _, _, _, _), Rollback(_, _, _, _)

\* ------------------------------------------------------------ DirectBlock
DirectRange(w, blk) == Ok(w, Range(blk.start, blk.end))

\* fetches the blob and yields it as one chunk (the range is ignored)
DirectGet(w, blk, range) ==
    Await(StoredGet(w, blk.stored, "bytes"), LAMBDA r :
    Stream(r.w, <<[ok |-> r.st = "ok", chunk |-> IF r.st = "ok" THEN r.val ELSE <<>>,
                   at |-> blk.start]>>))

\* requires range == self.range; overwrites the blob
DirectPut(w, blk, data, range) ==
    IF range # Range(blk.start, blk.end)
    THEN Err(w, blk, E("Range mismatch", "", 0))
    ELSE Await(StoredPut(w, blk.stored, data, "bytes"), LAMBDA r :
         [r EXCEPT !.val = blk])

DirectDelete(w, blk) == StoredDelete(w, blk.stored)

\* a mutant of DirectBlock::create: empty data is stored like any other
DirectCreate_stores_empty(w, data, start) ==
    LET bn == next_bucket(1, {}, Pick(w))
        w1 == Picked(w)
    IN IF bn = None THEN Err(w1, NoVal, E("No bucket found", "", 1))
       ELSE LET n == Min(Len(data), max_size(bn))
            IN Await(StoredCreate(w1, SubSeq(data, 1, n), "bytes"), LAMBDA r :
               IF r.st # "ok" THEN r
               ELSE Ok(r.w, [t |-> "d", stored |-> r.val,
                             start |-> start, end |-> start + n]))

\* rejects empty data; takes as many bytes as the chosen bucket's max_size
\* allows and stores them through Stored's placement
DirectCreate(w, data, start) ==
    IF Len(data) = 0 THEN Err(w, NoVal, E("Empty data", "", 0))
    ELSE LET bn == next_bucket(1, {}, Pick(w))
             w1 == Picked(w)
         IN IF bn = None THEN Err(w1, NoVal, E("No bucket found", "", 1))
            ELSE LET n == Min(Len(data), max_size(bn))
                 IN Await(StoredCreate(w1, SubSeq(data, 1, n), "bytes"), LAMBDA r :
                    IF r.st # "ok" THEN r
                    ELSE Ok(r.w, [t |-> "d", stored |-> r.val,
                                  start |-> start, end |-> start + n]))

\* ------------------------------------------------------------ StoredBlock
StoredBlockRange(w, blk) ==
    Await(StoredGet(w, blk.stored, "block"), LAMBDA r :
    IF r.st # "ok" THEN r ELSE BlockRange(r.w, r.val))

StoredBlockPut(w, blk, data, range) ==
    Await(StoredGet(w, blk.stored, "block"), LAMBDA g :
    IF g.st # "ok" THEN [g EXCEPT !.val = blk]
    ELSE Await(BlockPut(g.w, g.val, data, range), LAMBDA p :
         IF p.st # "ok" THEN [p EXCEPT !.val = blk]
         ELSE Await(StoredPut(p.w, blk.stored, p.val, "block"), LAMBDA s :
              [s EXCEPT !.val = blk])))

\* a mutant of StoredBlock::get: the inner stream is not forwarded
StoredBlockGet_dropped(w, blk, range) ==
    Await(StoredGet(w, blk.stored, "block"), LAMBDA g :
    IF g.st # "ok" THEN Stream(g.w, <<[ok |-> FALSE, chunk |-> <<>>, at |-> 0]>>)
    ELSE Stream(g.w, <<>>))

\* a mutant of StoredBlock::get: a fetch that fails ends the stream without
\* an item
StoredBlockGet_silent(w, blk, range) ==
    Await(StoredGet(w, blk.stored, "block"), LAMBDA g :
    IF g.st # "ok" THEN Stream(g.w, <<>>)
    ELSE BlockGet(g.w, g.val, range))

\* `?` inside stream!: the Err is yielded and the stream ends
StoredBlockGet(w, blk, range) ==
    Await(StoredGet(w, blk.stored, "block"), LAMBDA g :
    IF g.st # "ok" THEN Stream(g.w, <<[ok |-> FALSE, chunk |-> <<>>, at |-> 0]>>)
    ELSE BlockGet(g.w, g.val, range))

\* a mutant of StoredBlock::delete: the wrapper's own Stored is not deleted
StoredBlockDelete_inner_only(w, blk) ==
    Await(StoredGet(w, blk.stored, "block"), LAMBDA g :
    IF g.st # "ok" THEN Panic(g.w)
    ELSE BlockDelete(g.w, g.val))

StoredBlockDelete(w, blk) ==
    Await(StoredGet(w, blk.stored, "block"), LAMBDA g :
    IF g.st # "ok" THEN Panic(g.w)                        \* .unwrap()
    ELSE Await(BlockDelete(g.w, g.val), LAMBDA i :
         IF i.st = "panic" THEN i
         ELSE Await(StoredDelete(i.w, blk.stored), LAMBDA o :
              IF i.err \o o.err = <<>> THEN Ok(o.w, NoVal)
              ELSE Err(o.w, NoVal, i.err \o o.err))))

StoredBlockCreate(w, data, start) ==
    Await(IndirectCreate(w, data, start), LAMBDA b :      \* BlockType::create
    IF b.st # "ok" THEN b
    ELSE Await(StoredCreate(b.w, b.val, "block"), LAMBDA s :
         IF s.st # "ok" THEN s
         ELSE Ok(s.w, [t |-> "s", stored |-> s.val])))

\* ---------------------------------------------------------- IndirectBlock
\* a mutant of IndirectBlock::range: the end is taken from the first child
IndirectRange_first(w, blk) ==
    IF Len(blk.blocks) = 0 THEN Ok(w, Range(0, 0))
    ELSE Await(BlockRange(w, blk.blocks[1]), LAMBDA f :
         IF f.st # "ok" THEN f
         ELSE Await(BlockRange(f.w, blk.blocks[1]), LAMBDA l :
              IF l.st # "ok" THEN l
              ELSE Ok(l.w, Range(f.val.start, l.val.end))))

IndirectRange(w, blk) ==
    IF Len(blk.blocks) = 0 THEN Ok(w, Range(0, 0))
    ELSE Await(BlockRange(w, blk.blocks[1]), LAMBDA f :
         IF f.st # "ok" THEN f
         ELSE Await(BlockRange(f.w, blk.blocks[Len(blk.blocks)]), LAMBDA l :
              IF l.st # "ok" THEN l
              ELSE Ok(l.w, Range(f.val.start, l.val.end))))

\* a mutant of the loop of IndirectBlock::get: the children are read from
\* the last to the first
GetLoop_reversed(w, blocks, i, range) ==
    IF i > Len(blocks) THEN Stream(w, <<>>)
    ELSE Await(BlockGet(w, blocks[Len(blocks) + 1 - i], range), LAMBDA g :
         Await(GetLoop(g.w, blocks, i + 1, range), LAMBDA rest :
         Stream(rest.w, g.items \o rest.items)))

\* for block in self.blocks.iter() { ... yield data ... }
GetLoop(w, blocks, i, range) ==
    IF i > Len(blocks) THEN Stream(w, <<>>)
    ELSE Await(BlockGet(w, blocks[i], range), LAMBDA g :
         Await(GetLoop(g.w, blocks, i + 1, range), LAMBDA rest :
         Stream(rest.w, g.items \o rest.items)))

IndirectGet(w, blk, range) == GetLoop(w, blk.blocks, 1, range)

\* a mutant of the first loop of IndirectBlock::put: a child whose put fails
\* does not end the loop, the error is returned after the other children
PutLoop_keep_going(w, blocks, i, data, start_offset) ==
    IF i > Len(blocks) THEN Ok(w, blocks)
    ELSE Await(BlockRange(w, blocks[i]), LAMBDA r :
         IF r.st # "ok" THEN [r EXCEPT !.val = blocks]
         ELSE IF r.val.end <= start_offset THEN Ok(r.w, blocks)
         ELSE IF \/ r.val.start < start_offset
                 \/ r.val.start > r.val.end
                 \/ r.val.end - start_offset > Len(data)
              THEN Panic(r.w)
         ELSE Await(BlockPut(r.w, blocks[i],
                             Slice(data, r.val.start - start_offset, r.val.end - start_offset),
                             r.val), LAMBDA p :
              IF p.st = "panic" THEN p
              ELSE IF p.st = "ok"
              THEN PutLoop(p.w, [blocks EXCEPT ![i] = p.val], i + 1, data, start_offset)
              ELSE Await(PutLoop(p.w, [blocks EXCEPT ![i] = p.val], i + 1, data, start_offset),
                         LAMBDA rest :
                   IF rest.st = "panic" THEN rest
                   ELSE Err(rest.w, rest.val, p.err \o rest.err))))

\* a mutant of the first loop of IndirectBlock::put: the break tests the
\* start of the child, not its end
PutLoop_break_on_start(w, blocks, i, data, start_offset) ==
    IF i > Len(blocks) THEN Ok(w, blocks)
    ELSE Await(BlockRange(w, blocks[i]), LAMBDA r :
         IF r.st # "ok" THEN [r EXCEPT !.val = blocks]
         ELSE IF r.val.start <= start_offset THEN Ok(r.w, blocks)
         ELSE IF \/ r.val.start < start_offset
                 \/ r.val.start > r.val.end
                 \/ r.val.end - start_offset > Len(data)
              THEN Panic(r.w)
         ELSE Await(BlockPut(r.w, blocks[i],
                             Slice(data, r.val.start - start_offset, r.val.end - start_offset),
                             r.val), LAMBDA p :
              IF p.st = "panic" THEN p
              ELSE IF p.st # "ok" THEN [p EXCEPT !.val = [blocks EXCEPT ![i] = p.val]]
              ELSE PutLoop(p.w, [blocks EXCEPT ![i] = p.val], i + 1, data, start_offset)))

\* for block in self.blocks.iter_mut(): `start` stays range.start.  A usize
\* subtraction that underflows, or a slice index out of range, panics.
PutLoop(w, blocks, i, data, start_offset) ==
    IF i > Len(blocks) THEN Ok(w, blocks)
    ELSE Await(BlockRange(w, blocks[i]), LAMBDA r :
         IF r.st # "ok" THEN [r EXCEPT !.val = blocks]
         ELSE IF r.val.end <= start_offset THEN Ok(r.w, blocks)             \* break
         ELSE IF \/ r.val.start < start_offset
                 \/ r.val.start > r.val.end
                 \/ r.val.end - start_offset > Len(data)
              THEN Panic(r.w)
         ELSE Await(BlockPut(r.w, blocks[i],
                             Slice(data, r.val.start - start_offset, r.val.end - start_offset),
                             r.val), LAMBDA p :
              IF p.st = "panic" THEN p
              ELSE IF p.st # "ok" THEN [p EXCEPT !.val = [blocks EXCEPT ![i] = p.val]]
              ELSE PutLoop(p.w, [blocks EXCEPT ![i] = p.val], i + 1, data, start_offset)))

\* a mutant of the second loop of IndirectBlock::put: Directs are appended
\* whatever the number of children
AppendLoop_no_limit(w, blocks, start, data, range) ==
    IF ~(start < range.end)
    THEN Ok(w, [blocks |-> blocks, start |-> start])
    ELSE IF start < range.start \/ start - range.start > Len(data) THEN Panic(w)
    ELSE Await(DirectCreate(w, Slice(data, start - range.start, Len(data)), start), LAMBDA d :
         IF d.st # "ok" THEN [d EXCEPT !.val = [blocks |-> blocks, start |-> start]]
         ELSE Await(BlockRange(d.w, d.val), LAMBDA r :
              IF r.st # "ok" THEN [r EXCEPT !.val = [blocks |-> blocks, start |-> start]]
              ELSE AppendLoop(r.w, Append(blocks, d.val), r.val.end, data, range)))

\* while start < range.end && self.blocks.len() < direct_block_count
AppendLoop(w, blocks, start, data, range) ==
    IF ~(start < range.end /\ Len(blocks) < get_direct_block_count)
    THEN Ok(w, [blocks |-> blocks, start |-> start])
    ELSE IF start < range.start \/ start - range.start > Len(data) THEN Panic(w)
    ELSE Await(DirectCreate(w, Slice(data, start - range.start, Len(data)), start), LAMBDA d :
         IF d.st # "ok" THEN [d EXCEPT !.val = [blocks |-> blocks, start |-> start]]
         ELSE Await(BlockRange(d.w, d.val), LAMBDA r :
              IF r.st # "ok" THEN [r EXCEPT !.val = [blocks |-> blocks, start |-> start]]
              ELSE AppendLoop(r.w, Append(blocks, d.val), r.val.end, data, range)))

\* the StoredBlock appended for what the Directs did not take
PutTail(a, data, range) ==
    IF a.st = "panic" THEN a
    ELSE IF a.st # "ok" THEN [a EXCEPT !.val = Indirect(a.val.blocks)]
    ELSE IF ~(a.val.start < range.end) THEN Ok(a.w, Indirect(a.val.blocks))
    ELSE IF \/ a.val.start < range.start
            \/ a.val.start - range.start > Len(data)
         THEN Panic(a.w)
    ELSE Await(StoredBlockCreate(a.w, Slice(data, a.val.start - range.start, Len(data)),
                                 a.val.start), LAMBDA s :
         IF s.st # "ok" THEN [s EXCEPT !.val = Indirect(a.val.blocks)]
         ELSE Ok(s.w, Indirect(Append(a.val.blocks, s.val))))

IndirectPut(w, blk, data, range) ==
    Await(PutLoop(w, blk.blocks, 1, data, range.start), LAMBDA l :
    IF l.st = "panic" THEN l
    ELSE IF l.st # "ok" THEN [l EXCEPT !.val = Indirect(l.val)]
    ELSE Await(IF Len(l.val) = 0 THEN Ok(l.w, Range(range.start, range.start))
               ELSE BlockRange(l.w, l.val[Len(l.val)]), LAMBDA e :
         IF e.st # "ok" THEN [e EXCEPT !.val = Indirect(l.val)]
         ELSE PutTail(AppendLoop(e.w, l.val, e.val.end, data, range), data, range)))

\* for block in self.blocks.iter(): every child, errors collected
DeleteLoop(w, blocks, i, errors) ==
    IF i > Len(blocks)
    THEN IF errors = <<>> THEN Ok(w, NoVal) ELSE Err(w, NoVal, errors)
    ELSE Await(BlockDelete(w, blocks[i]), LAMBDA d :
         IF d.st = "panic" THEN d
         ELSE DeleteLoop(d.w, blocks, i + 1, errors \o d.err))

IndirectDelete(w, blk) == DeleteLoop(w, blk.blocks, 1, <<>>)

\* a mutant of the loop of IndirectBlock::create: one Direct too many
CreateLoop_one_more(w, blocks, start, data, slice_offset) ==
    IF ~(start < slice_offset + Len(data) /\ Len(blocks) <= get_direct_block_count)
    THEN Ok(w, [blocks |-> blocks, start |-> start])
    ELSE Await(DirectCreate(w, Slice(data, start - slice_offset, Len(data)), start), LAMBDA d :
         IF d.st # "ok" THEN [d EXCEPT !.st = "return"]
         ELSE Await(BlockRange(d.w, d.val), LAMBDA r :
              IF r.st # "ok" THEN [r EXCEPT !.val = [blocks |-> blocks, start |-> start]]
              ELSE CreateLoop(r.w, Append(blocks, d.val), r.val.end, data, slice_offset)))

\* while start < end && blocks.len() < direct_block_count: DirectBlock::create
\* returns through `?` (st "return"); only a failing range() sets `error` and
\* breaks (st "err")
CreateLoop(w, blocks, start, data, slice_offset) ==
    IF ~(start < slice_offset + Len(data) /\ Len(blocks) < get_direct_block_count)
    THEN Ok(w, [blocks |-> blocks, start |-> start])
    ELSE Await(DirectCreate(w, Slice(data, start - slice_offset, Len(data)), start), LAMBDA d :
         IF d.st # "ok" THEN [d EXCEPT !.st = "return"]                     \* .await?
         ELSE Await(BlockRange(d.w, d.val), LAMBDA r :
              IF r.st # "ok" THEN [r EXCEPT !.val = [blocks |-> blocks, start |-> start]]
              ELSE CreateLoop(r.w, Append(blocks, d.val), r.val.end, data, slice_offset)))

\* if let Some(err) = error: delete all the blocks created, join the errors
Rollback(w, blocks, i, errors) ==
    IF i > Len(blocks) THEN Err(w, NoVal, errors)
    ELSE Await(BlockDelete(w, blocks[i]), LAMBDA d :
         IF d.st = "panic" THEN d
         ELSE Rollback(d.w, blocks, i + 1, errors \o d.err))

IndirectCreate(w, data, start) ==
    Await(CreateLoop(w, <<>>, start, data, start), LAMBDA l :
    IF l.st = "return" THEN Err(l.w, NoVal, l.err)
    ELSE IF l.st = "err" THEN Rollback(l.w, l.val.blocks, 1, l.err)
    ELSE IF ~(l.val.start < start + Len(data)) THEN Ok(l.w, Indirect(l.val.blocks))
    ELSE Await(StoredBlockCreate(l.w, Slice(data, l.val.start - start, Len(data)),
                                 l.val.start), LAMBDA s :
         IF s.st # "ok" THEN s
         ELSE Ok(s.w, Indirect(Append(l.val.blocks, s.val)))))

\* -------------------------------------------------------------- BlockType
BlockRange(w, blk) ==
    IF blk.t = "d" THEN DirectRange(w, blk)
    ELSE IF blk.t = "i" THEN IndirectRange(w, blk)
    ELSE StoredBlockRange(w, blk)

BlockGet(w, blk, range) ==
    IF blk.t = "d" THEN DirectGet(w, blk, range)
    ELSE IF blk.t = "i" THEN IndirectGet(w, blk, range)
    ELSE StoredBlockGet(w, blk, range)

BlockPut(w, blk, data, range) ==
    IF blk.t = "d" THEN DirectPut(w, blk, data, range)
    ELSE IF blk.t = "i" THEN IndirectPut(w, blk, data, range)
    ELSE StoredBlockPut(w, blk, data, range)

BlockDelete(w, blk) ==
    IF blk.t = "d" THEN DirectDelete(w, blk)
    ELSE IF blk.t = "i" THEN IndirectDelete(w, blk)
    ELSE StoredBlockDelete(w, blk)

\* BlockType::create: "we use indirect blocks, because they will fit any data size"
BlockCreate(w, data, start) == IndirectCreate(w, data, start)

\* ----------------------------------------------------------------- inodes
\* A File is [t |-> "f", data, metadata], a Directory [t |-> "dir", children,
\* metadata], children a function from the names to their Stored.  The
\* methods that take &mut self return the Directory as the call left it next
\* to what they return: val is [dir, ret].
Size(unit, n) == [unit |-> unit, n |-> n]

\* Metadata::new()
Metadata_new == [size |-> Size("Entries", 0)]

\* Metadata::modified(size): the size is replaced (and the time of the
\* modification, which the model does not hold)
modified(md, size) == [md EXCEPT !.size = size]

NoChildren == [n \in {} |-> [bucket |-> "", descriptor |-> 0]]

\* Directory::new
Directory_new == [t |-> "dir", children |-> NoChildren, metadata |-> Metadata_new]

\* HashMap::remove
Without(children, name) == [n \in (DOMAIN children) \ {name} |-> children[n]]

\* HashMap::insert
With(children, name, stored) ==
    [n \in (DOMAIN children) \cup {name} |-> IF n = name THEN stored ELSE children[n]]

Left(dir, ret) == [dir |-> dir, ret |-> ret]

\* File::create
FileCreate(w, data) ==
    Await(IndirectCreate(w, data, 0), LAMBDA b :
    IF b.st # "ok" THEN b
    ELSE Ok(b.w, [t |-> "f", data |-> b.val,
                  metadata |-> [size |-> Size("Bytes", Len(data))]]))

\* File::get: `?` inside stream!
FileGet(w, file) ==
    Await(IndirectRange(w, file.data), LAMBDA r :
    IF r.st # "ok" THEN Stream(r.w, <<[ok |-> FALSE, chunk |-> <<>>, at |-> 0]>>)
    ELSE IndirectGet(r.w, file.data, r.val))

RECURSIVE InodeDelete(_, _, _), DirectoryDeleteLoop(_, _, _, _, _, _)
\* Directory::delete, the loop: for (_, stored) in self.children.drain(), in
\* the order the HashMap gives (names, filtered from order)
DirectoryDeleteLoop(w, dir, names, i, errors, order) ==
    IF i > Len(names)
    THEN IF errors = <<>> THEN Ok(w, Left([dir EXCEPT !.children = NoChildren], NoVal))
         ELSE Err(w, Left([dir EXCEPT !.children = NoChildren], NoVal), errors)
    ELSE Await(StoredGet(w, dir.children[names[i]], "inode"), LAMBDA g :
         Await(IF g.st = "ok" THEN InodeDelete(g.w, g.val, order) ELSE g, LAMBDA d :
         IF d.st = "panic" THEN d
         ELSE Await(StoredDelete(d.w, dir.children[names[i]]), LAMBDA s :
              DirectoryDeleteLoop(s.w, dir, names, i + 1, errors \o d.err \o s.err, order))))

\* Directory::delete
DirectoryDelete(w, dir, order) ==
    DirectoryDeleteLoop(w, dir, SelectSeq(order, LAMBDA n : n \in DOMAIN dir.children),
                        1, <<>>, order)

\* File::delete
FileDelete(w, file) == IndirectDelete(w, file.data)

\* InodeType::delete
InodeDelete(w, inode, order) ==
    IF inode.t = "f" THEN FileDelete(w, inode) ELSE DirectoryDelete(w, inode, order)

\* a mutant of Directory::add: a name that is present is mapped again
DirectoryAdd_overwrite(w, dir, name, inode) ==
    Await(StoredCreate(w, inode, "inode"), LAMBDA s :
    IF s.st # "ok" THEN [s EXCEPT !.val = Left(dir, NoVal)]
    ELSE Ok(s.w, Left([dir EXCEPT
                          !.children = With(@, name, s.val),
                          !.metadata = modified(@,
                              Size("Entries", Cardinality(DOMAIN With(dir.children, name, s.val))))],
                      s.val)))

\* Directory::add
DirectoryAdd(w, dir, name, inode) ==
    IF name \in DOMAIN dir.children
    THEN Err(w, Left(dir, NoVal), E("already exists", name, 0))
    ELSE Await(StoredCreate(w, inode, "inode"), LAMBDA s :
         IF s.st # "ok" THEN [s EXCEPT !.val = Left(dir, NoVal)]
         ELSE Ok(s.w, Left([dir EXCEPT
                               !.children = With(@, name, s.val),
                               !.metadata = modified(@,
                                   Size("Entries", Cardinality(DOMAIN With(dir.children, name, s.val))))],
                           s.val)))

\* Directory::remove
DirectoryRemove(w, dir, name, order) ==
    IF name \notin DOMAIN dir.children
    THEN Err(w, Left(dir, NoVal), E("does not exist", name, 0))
    ELSE Await(StoredGet(w, dir.children[name], "inode"), LAMBDA g :
         Await(IF g.st = "ok" THEN InodeDelete(g.w, g.val, order) ELSE g, LAMBDA res :
         IF res.st = "panic" THEN res
         ELSE Await(StoredDelete(res.w, dir.children[name]), LAMBDA s :
              IF s.st # "ok"                                   \* .await?
              THEN Err(s.w, Left([dir EXCEPT !.children = Without(@, name)], NoVal), s.err)
              ELSE IF res.st # "ok"
              THEN Err(s.w, Left([dir EXCEPT !.children = Without(@, name)], NoVal), res.err)
              ELSE Ok(s.w, Left([dir EXCEPT !.children = Without(@, name)], NoVal)))))

\* Directory::unlink
DirectoryUnlink(w, dir, name) ==
    IF name \notin DOMAIN dir.children
    THEN Err(w, Left(dir, NoVal), E("does not exist", name, 0))
    ELSE Ok(w, Left([dir EXCEPT !.children = Without(@, name)], dir.children[name]))

\* Directory::list
DirectoryList(dir) == DOMAIN dir.children

\* Directory::get
DirectoryGet(w, dir, name) ==
    IF name \notin DOMAIN dir.children
    THEN Err(w, Left(dir, NoVal), E("does not exist", name, 0))
    ELSE Ok(w, Left(dir, dir.children[name]))

\* a mutant of Directory::put: the Stored is mapped to another name
DirectoryPut_misnamed(w, dir, name, stored) ==
    IF name \in DOMAIN dir.children
    THEN Err(w, Left(dir, NoVal), E("already exists", name, 0))
    ELSE Ok(w, Left([dir EXCEPT !.children = With(@, "z", stored)], NoVal))

\* Directory::put
DirectoryPut(w, dir, name, stored) ==
    IF name \in DOMAIN dir.children
    THEN Err(w, Left(dir, NoVal), E("already exists", name, 0))
    ELSE Ok(w, Left([dir EXCEPT
                        !.children = With(@, name, stored),
                        !.metadata = modified(@,
                            Size("Entries", Cardinality(DOMAIN With(dir.children, name, stored))))],
                    NoVal))

\* ------------------------------------------------------------ the machine
NoTree == [t |-> "none"]

EmptyStore == [h \in {} |-> EmptyBlob]

\* the buckets of the block tests: a small one and a large one
BlockBuckets == [b \in BucketNames |-> IF b = "a" THEN SmallMax ELSE BigMax]

Oracles == [1..OrcLen -> 0..(Len(BucketOrder) - 1)]

\* the picks that always take the first eligible bucket, or always the last
FewOracles == {[i \in 1..OrcLen |-> 0], [i \in 1..OrcLen |-> Len(BucketOrder) - 1]}

NoFaults == {{}}

OneFault == {{}} \cup {{k} : k \in 1..MaxFaultPos}

FullRange == Range(0, MaxLen)

\* what the last operation was given and what it returned; created and
\* createdAt remember the arguments of the create that built the tree
Record(op, r, data, range, items) ==
    [op |-> op, st |-> r.st, err |-> r.err, val |-> r.val, log |-> r.w.log,
     data |-> data, range |-> range, items |-> items,
     pre |-> tree, prestore |-> store,
     puts |-> IF op = "put" THEN last.puts + 1 ELSE 0,
     created |-> IF op \in {"create", "create_stored"} THEN data ELSE last.created,
     createdAt |-> IF op \in {"create", "create_stored"} THEN range.start ELSE last.createdAt]

Init ==
    /\ store = EmptyStore
    /\ nextd = 1
    /\ tree = NoTree
    /\ direct_block_count \in 1..MaxFanout
    /\ buckets = BlockBuckets
    /\ last = [op |-> "init", st |-> "ok", err |-> <<>>, val |-> NoVal, log |-> <<>>,
               data |-> <<>>, range |-> Range(0, 0), items |-> <<>>,
               pre |-> NoTree, prestore |-> EmptyStore, puts |-> 0,
               created |-> <<>>, createdAt |-> 0]

\* BlockType::create(global, data, start)
CreateTree(faults) ==
    /\ last.op = "init"
    /\ \E n \in 0..MaxLen, s \in 0..MaxStart, orc \in Oracles, fails \in faults :
         \E r \in {BlockCreate(World(store, nextd, fails, orc), Bytes(n, 0), s)} :
            /\ store' = r.w.store
            /\ nextd' = r.w.nextd
            /\ tree' = IF r.st = "ok" THEN r.val ELSE NoTree
            /\ last' = Record("create", r, Bytes(n, 0), Range(s, s + n), <<>>)
            /\ UNCHANGED <<direct_block_count, buckets>>

\* DirectBlock::create(global, data, start)
CreateDirect(faults) ==
    /\ last.op = "init"
    /\ \E n \in 0..MaxLen, s \in 0..MaxStart, orc \in Oracles, fails \in faults :
         \E r \in {DirectCreate(World(store, nextd, fails, orc), Bytes(n, 0), s)} :
            /\ store' = r.w.store
            /\ nextd' = r.w.nextd
            /\ tree' = IF r.st = "ok" THEN r.val ELSE NoTree
            /\ last' = Record("create_direct", r, Bytes(n, 0), Range(s, s + n), <<>>)
            /\ UNCHANGED <<direct_block_count, buckets>>

\* StoredBlock::create(global, data, start)
CreateStored(faults) ==
    /\ last.op = "init"
    /\ \E n \in 0..MaxLen, s \in 0..MaxStart, orc \in Oracles, fails \in faults :
         \E r \in {StoredBlockCreate(World(store, nextd, fails, orc), Bytes(n, 0), s)} :
            /\ store' = r.w.store
            /\ nextd' = r.w.nextd
            /\ tree' = IF r.st = "ok" THEN r.val ELSE NoTree
            /\ last' = Record("create_stored", r, Bytes(n, 0), Range(s, s + n), <<>>)
            /\ UNCHANGED <<direct_block_count, buckets>>

\* block.range(global)
RangeTree(faults) ==
    /\ tree # NoTree
    /\ last.st # "panic"
    /\ \E fails \in faults :
         \E r \in {BlockRange(World(store, nextd, fails, <<0>>), tree)} :
            /\ last' = Record("range", r, <<>>, Range(0, 0), <<>>)
            /\ UNCHANGED <<store, nextd, tree, direct_block_count, buckets>>

\* block.get(global, range), the stream drained
GetTree(faults) ==
    /\ tree # NoTree
    /\ last.st # "panic"
    /\ \E fails \in faults :
         \E g \in {BlockGet(World(store, nextd, fails, <<0>>), tree, FullRange)} :
            /\ last' = Record("get", Ok(g.w, NoVal), <<>>, FullRange, g.items)
            /\ UNCHANGED <<store, nextd, tree, direct_block_count, buckets>>

\* block.put(global, data, range)
PutTree(faults, oracles) ==
    /\ tree # NoTree
    /\ last.st # "panic"
    /\ last.puts < 1
    /\ \E n \in 0..MaxPutLen, s \in 0..MaxPutStart, orc \in oracles, fails \in faults :
         \E r \in {BlockPut(World(store, nextd, fails, orc), tree, Bytes(n, 100), Range(s, s + n))} :
            /\ store' = r.w.store
            /\ nextd' = r.w.nextd
            /\ tree' = IF r.st = "panic" THEN tree ELSE r.val
            /\ last' = Record("put", r, Bytes(n, 100), Range(s, s + n), <<>>)
            /\ UNCHANGED <<direct_block_count, buckets>>

\* block.put(global, data, range) with data.len() != range.len()
PutLen(faults, oracles) ==
    /\ tree # NoTree
    /\ last.st # "panic"
    /\ last.puts < 1
    /\ \E n \in 0..MaxPutLen, s \in 0..MaxPutStart, e \in 0..(MaxPutStart + MaxPutLen),
          orc \in oracles, fails \in faults :
         /\ s <= e
         /\ n # e - s
         /\ \E r \in {BlockPut(World(store, nextd, fails, orc), tree, Bytes(n, 100), Range(s, e))} :
               /\ store' = r.w.store
               /\ nextd' = r.w.nextd
               /\ tree' = IF r.st = "panic" THEN tree ELSE r.val
               /\ last' = Record("put", r, Bytes(n, 100), Range(s, e), <<>>)
               /\ UNCHANGED <<direct_block_count, buckets>>

\* block.put(global, data, range) once more, after a put that returned Ok
PutMore(oracles) ==
    /\ last.op = "put"
    /\ last.st = "ok"
    /\ last.puts < MaxPuts
    /\ \E n \in 0..MaxPutLen, s \in 0..MaxPutStart, orc \in oracles :
         \E r \in {BlockPut(World(store, nextd, {}, orc), tree, Bytes(n, 200), Range(s, s + n))} :
            /\ store' = r.w.store
            /\ nextd' = r.w.nextd
            /\ tree' = IF r.st = "panic" THEN tree ELSE r.val
            /\ last' = Record("put", r, Bytes(n, 200), Range(s, s + n), <<>>)
            /\ UNCHANGED <<direct_block_count, buckets>>

\* block.put(D1 ++ D2, 0..len(D1)+len(D2)) on the tree create(D1, 0) returned,
\* D2 non-empty
Extend(oracles) ==
    /\ last.op = "create"
    /\ last.st = "ok"
    /\ last.createdAt = 0
    /\ \E k \in 1..MaxExt, orc \in oracles :
         \E r \in {BlockPut(World(store, nextd, {}, orc), tree,
                              last.created \o Bytes(k, 50),
                              Range(0, Len(last.created) + k))} :
            /\ store' = r.w.store
            /\ nextd' = r.w.nextd
            /\ tree' = IF r.st = "panic" THEN tree ELSE r.val
            /\ last' = Record("put", r, last.created \o Bytes(k, 50),
                              Range(0, Len(last.created) + k), <<>>)
            /\ UNCHANGED <<direct_block_count, buckets>>

\* the sizes asked of next_bucket: up to one more than any bucket accepts
MinSizes == 0..(BigMax + 1)

\* the exclude lists given to next_bucket: configured names and a foreign one
Excludes == SUBSET (BucketNames \cup {"z"})

\* global.next_bucket(min_size, exclude)
NextBucket ==
    /\ last.op = "init"
    /\ \E min_size \in MinSizes, exclude \in Excludes, pick \in 0..(Len(BucketOrder) - 1) :
         last' = [op |-> "next_bucket", st |-> "ok", min_size |-> min_size,
                  exclude |-> exclude, pick |-> pick,
                  val |-> next_bucket(min_size, exclude, pick)]
    /\ UNCHANGED <<store, nextd, tree, direct_block_count, buckets>>

\* a block value of k Direct children, as Stored serializes one
SampleBlock(k) ==
    Indirect([i \in 1..k |-> [t |-> "d", stored |-> [bucket |-> "a", descriptor |-> i],
                              start |-> i - 1, end |-> i]])

\* the values given to Stored: byte vectors and blocks, the largest blocks
\* larger than any bucket accepts
Types == {"bytes", "block"}

Sizes(ty) == IF ty = "bytes" THEN 0..MaxLen ELSE 0..MaxChildren

Value(ty, k, base) == IF ty = "bytes" THEN Bytes(k, base) ELSE SampleBlock(k)

NoHandle == [t |-> "none"]

\* what a call on a Stored was given and returned; held is the value the
\* handle holds: the last one a create or a put stored
StoredRecord(op, r, v, held) ==
    [op |-> op, st |-> r.st, err |-> r.err, val |-> r.val, log |-> r.w.log,
     picks |-> r.w.pi, data |-> v, held |-> held,
     pre |-> tree, prestore |-> store,
     puts |-> IF op = "stored_put" THEN last.puts + 1 ELSE last.puts]

\* Stored::create(global, data)
CreateHandle(faults) ==
    /\ last.op = "init"
    /\ \E ty \in Types, orc \in Oracles, fails \in faults :
         \E k \in Sizes(ty) :
         \E r \in {StoredCreate(World(store, nextd, fails, orc), Value(ty, k, 0), ty)} :
            /\ store' = r.w.store
            /\ nextd' = r.w.nextd
            /\ tree' = IF r.st = "ok" THEN [t |-> "stored", stored |-> r.val, ty |-> ty]
                        ELSE NoHandle
            /\ last' = StoredRecord("stored_create", r, Value(ty, k, 0), Value(ty, k, 0))
            /\ UNCHANGED <<direct_block_count, buckets>>

\* stored.put(global, data), with the type the handle was created with
PutHandle(faults) ==
    /\ tree.t = "stored"
    /\ last.puts < MaxPuts
    /\ \E k \in Sizes(tree.ty), fails \in faults :
         \E r \in {StoredPut(World(store, nextd, fails, <<0>>), tree.stored,
                              Value(tree.ty, k, 100), tree.ty)} :
            /\ store' = r.w.store
            /\ nextd' = r.w.nextd
            /\ last' = StoredRecord("stored_put", r, Value(tree.ty, k, 100),
                                    IF r.st = "ok" THEN Value(tree.ty, k, 100) ELSE last.held)
            /\ UNCHANGED <<tree, direct_block_count, buckets>>

\* stored.get::<T>(global), with the type the handle was created with
GetHandle(faults) ==
    /\ tree.t = "stored"
    /\ \E fails \in faults :
         \E r \in {StoredGet(World(store, nextd, fails, <<0>>), tree.stored, tree.ty)} :
            /\ last' = StoredRecord("stored_get", r, <<>>, last.held)
            /\ UNCHANGED <<store, nextd, tree, direct_block_count, buckets>>

\* ------------------------------------------------------------ Stored URLs
\* Strings are the sequences of their bytes (the bucket names of the model
\* are ASCII).  urlencoding keeps the unreserved characters, the ASCII
\* letters and digits and - . _ ~, and writes every other byte as % and two
\* upper-case hexadecimal digits.
Unreserved(b) ==
    \/ b \in 48..57
    \/ b \in 65..90
    \/ b \in 97..122
    \/ b \in {45, 46, 95, 126}

HexDigit(d) == IF d < 10 THEN 48 + d ELSE 55 + d

\* the value of a hexadecimal digit, -1 for any other byte
FromHex(c) ==
    IF c \in 48..57 THEN c - 48
    ELSE IF c \in 65..70 THEN c - 55
    ELSE IF c \in 97..102 THEN c - 87
    ELSE 0 - 1

RECURSIVE encode(_, _), decode(_, _), replace_dollar(_, _)
\* urlencoding::encode / encode_binary
encode(bytes, i) ==
    IF i > Len(bytes) THEN <<>>
    ELSE (IF Unreserved(bytes[i]) THEN <<bytes[i]>>
          ELSE <<37, HexDigit(bytes[i] \div 16), HexDigit(bytes[i] % 16)>>)
         \o encode(bytes, i + 1)

\* urlencoding::decode_binary: a % that two hexadecimal digits do not follow
\* is kept as it is
decode(url, i) ==
    IF i > Len(url) THEN <<>>
    ELSE IF /\ url[i] = 37
            /\ i + 2 <= Len(url)
            /\ FromHex(url[i + 1]) >= 0
            /\ FromHex(url[i + 2]) >= 0
    THEN <<16 * FromHex(url[i + 1]) + FromHex(url[i + 2])>> \o decode(url, i + 3)
    ELSE <<url[i]>> \o decode(url, i + 1)

\* .replace('$', "%24")
replace_dollar(str, i) ==
    IF i > Len(str) THEN <<>>
    ELSE (IF str[i] = 36 THEN <<37, 50, 52>> ELSE <<str[i]>>) \o replace_dollar(str, i + 1)

\* a mutant of Stored::as_url: only the $ is escaped
as_url_dollar_only(s) ==
    replace_dollar(s.bucket, 1) \o <<36>> \o replace_dollar(s.descriptor, 1)

\* Stored::as_url
as_url(s) ==
    replace_dollar(encode(s.bucket, 1), 1) \o <<36>>
        \o replace_dollar(encode(s.descriptor, 1), 1)

\* Stored::from_url: the decoded bucket must be UTF-8 (here: ASCII)
from_url(bucket, descriptor) ==
    IF \E i \in 1..Len(decode(bucket, 1)) : decode(bucket, 1)[i] >= 128
    THEN [st |-> "err", val |-> "Invalid bucket"]
    ELSE [st |-> "ok",
          val |-> [bucket |-> decode(bucket, 1), descriptor |-> decode(descriptor, 1)]]

\* the positions of the literal $ in a URL
Dollars(url) == {i \in 1..Len(url) : url[i] = 36}

\* the URL split at its first $
Before(url) == SubSeq(url, 1, (CHOOSE i \in Dollars(url) : \A j \in Dollars(url) : i <= j) - 1)

After(url) ==
    SubSeq(url, (CHOOSE i \in Dollars(url) : \A j \in Dollars(url) : i <= j) + 1, Len(url))

\* the bytes of the bucket names:  space $ % 2 4 a ~
NameBytes == {32, 36, 37, 50, 52, 97, 126}

\* the bytes of the descriptors: as above, with 0 and 255
DescriptorBytes == {0, 36, 37, 50, 52, 97, 255}

Strings(alphabet, max) == UNION {[1..n -> alphabet] : n \in 0..max}

\* stored.as_url(), the result split at the $ and given to Stored::from_url
UrlRoundTrip ==
    /\ last.op = "init"
    /\ \E bucket \in Strings(NameBytes, MaxNameLen),
          descriptor \in Strings(DescriptorBytes, MaxDescLen) :
         \E url \in {as_url([bucket |-> bucket, descriptor |-> descriptor])} :
            last' = [op |-> "as_url", st |-> "ok",
                     stored |-> [bucket |-> bucket, descriptor |-> descriptor],
                     url |-> url,
                     val |-> from_url(Before(url), After(url))]
    /\ UNCHANGED <<store, nextd, tree, direct_block_count, buckets>>

\* ------------------------------------------------------ the directories
\* tree holds what the caller holds: a Directory dir, a second one dst, and
\* clip, the Stored the last unlink returned (as the shell's clipboard).
\* last.ops counts the calls, last.pos the backend operations issued before
\* the call on the Directory began.
Names == {"x", "y"}

\* the orders in which a HashMap may give its entries
Orders == {<<"x", "y">>, <<"y", "x">>}

NoStored == [bucket |-> "", descriptor |-> 0]

Dirs(dir, dst, clip) == [t |-> "dirs", dir |-> dir, dst |-> dst, clip |-> clip]

\* buckets large enough for an inode that holds a block tree
InodeBuckets == [b \in BucketNames |-> IF b = "a" THEN SmallMax ELSE InodeMax]

InitInode ==
    /\ store = EmptyStore
    /\ nextd = 1
    /\ tree = Dirs(Directory_new, Directory_new, NoStored)
    /\ direct_block_count \in 1..MaxFanout
    /\ buckets = InodeBuckets
    /\ last = [op |-> "new", st |-> "ok", err |-> <<>>, val |-> NoVal, log |-> <<>>,
               pos |-> 0, name |-> "", target |-> "dir", order |-> <<>>,
               pre |-> Dirs(Directory_new, Directory_new, NoStored),
               prestore |-> EmptyStore, ops |-> 0]

DirRecord(op, r, name, pos, target, order) ==
    [op |-> op, st |-> r.st, err |-> r.err,
     val |-> IF r.st = "panic" THEN NoVal ELSE r.val.ret,
     log |-> r.w.log, pos |-> pos, name |-> name, target |-> target, order |-> order,
     pre |-> tree, prestore |-> store, ops |-> last.ops + 1]

\* the Directory after a call: a panic takes the value with it
After_(target, r) ==
    IF r.st = "panic" THEN tree ELSE [tree EXCEPT ![target] = r.val.dir]

\* File::create(global, data), then directory.add(global, name, file.to_enum())
AddFile(faults, targets, cap) ==
    /\ tree.t = "dirs"
    /\ last.st # "panic"
    /\ last.ops < cap
    /\ \E target \in targets, name \in Names, n \in 0..MaxFileLen, orc \in FewOracles,
          fails \in faults :
         \E f \in {FileCreate(World(store, nextd, fails, orc), Bytes(n, 0))} :
         \E r \in {IF f.st = "ok" THEN DirectoryAdd(f.w, tree[target], name, f.val)
                    ELSE [f EXCEPT !.val = Left(tree[target], NoVal)]} :
            /\ store' = r.w.store
            /\ nextd' = r.w.nextd
            /\ tree' = After_(target, r)
            /\ last' = DirRecord(IF f.st = "ok" THEN "add" ELSE "file_create", r, name,
                                 Len(f.w.log), target, <<>>)
            /\ UNCHANGED <<direct_block_count, buckets>>

\* directory.add(global, name, inode) with a Directory: a new one, or dst
\* with what it holds
AddDir(faults, cap) ==
    /\ tree.t = "dirs"
    /\ last.st # "panic"
    /\ last.ops < cap
    /\ \E name \in Names, inode \in {Directory_new, tree.dst}, fails \in faults :
         \E r \in {DirectoryAdd(World(store, nextd, fails, <<1>>), tree.dir, name, inode)} :
            /\ store' = r.w.store
            /\ nextd' = r.w.nextd
            /\ tree' = [After_("dir", r) EXCEPT !.dst = Directory_new]
            /\ last' = DirRecord("add", r, name, 0, "dir", <<>>)
            /\ UNCHANGED <<direct_block_count, buckets>>

\* directory.remove(global, name)
Remove(faults, cap) ==
    /\ tree.t = "dirs"
    /\ last.st # "panic"
    /\ last.ops < cap
    /\ \E name \in Names, order \in Orders, fails \in faults :
         \E r \in {DirectoryRemove(World(store, nextd, fails, <<0>>), tree.dir, name, order)} :
            /\ store' = r.w.store
            /\ nextd' = r.w.nextd
            /\ tree' = After_("dir", r)
            /\ last' = DirRecord("remove", r, name, 0, "dir", order)
            /\ UNCHANGED <<direct_block_count, buckets>>

\* directory.unlink(name), the Stored kept as the shell's cut does
Unlink(cap) ==
    /\ tree.t = "dirs"
    /\ last.st # "panic"
    /\ last.ops < cap
    /\ tree.clip = NoStored
    /\ \E name \in Names :
         \E r \in {DirectoryUnlink(World(store, nextd, {}, <<0>>), tree.dir, name)} :
            /\ tree' = [After_("dir", r) EXCEPT !.clip = IF r.st = "ok" THEN r.val.ret ELSE @]
            /\ last' = DirRecord("unlink", r, name, 0, "dir", <<>>)
            /\ UNCHANGED <<store, nextd, direct_block_count, buckets>>

\* directory.put(name, stored) with the Stored an unlink returned, on either
\* directory
Put(cap) ==
    /\ tree.t = "dirs"
    /\ last.st # "panic"
    /\ last.ops < cap
    /\ tree.clip # NoStored
    /\ \E target \in {"dir", "dst"}, name \in Names :
         \E r \in {DirectoryPut(World(store, nextd, {}, <<0>>), tree[target], name, tree.clip)} :
            /\ tree' = [After_(target, r) EXCEPT !.clip = NoStored]
            /\ last' = DirRecord("dput", r, name, 0, target, <<>>)
            /\ UNCHANGED <<store, nextd, direct_block_count, buckets>>

\* directory.get(name), on either directory
Get(cap) ==
    /\ tree.t = "dirs"
    /\ last.st # "panic"
    /\ last.ops < cap
    /\ \E target \in {"dir", "dst"}, name \in Names :
         \E r \in {DirectoryGet(World(store, nextd, {}, <<0>>), tree[target], name)} :
            /\ last' = DirRecord("dget", r, name, 0, target, <<>>)
            /\ UNCHANGED <<store, nextd, tree, direct_block_count, buckets>>

\* directory.delete(global)
DeleteDir(faults, cap) ==
    /\ tree.t = "dirs"
    /\ last.st # "panic"
    /\ last.ops < cap
    /\ \E order \in Orders, fails \in faults :
         \E r \in {DirectoryDelete(World(store, nextd, fails, <<0>>), tree.dir, order)} :
            /\ store' = r.w.store
            /\ nextd' = r.w.nextd
            /\ tree' = After_("dir", r)
            /\ last' = DirRecord("ddelete", r, "", 0, "dir", order)
            /\ UNCHANGED <<direct_block_count, buckets>>

\* ------------------------------------------------- the root, both modes
\* tree holds what is outside the process: whether an S3 is configured, the
\* object chunkdrive-root.dat of the S3 bucket, the local file at root_path
\* and whether that file can be created.  An object or a file is missing,
\* corrupt (it does not deserialize) or holds a serialized Directory.  A
\* call is given f, the outcomes of the S3 requests it may make.  It returns
\* the Directory, the outside world as it leaves it, and its side effects
\* in order.
Missing == [kind |-> "missing", root |-> Directory_new]

Corrupt == [kind |-> "corrupt", root |-> Directory_new]

Holds(root) == [kind |-> "root", root |-> root]

Env(s3, s3obj, local, writable) ==
    [t |-> "env", s3 |-> s3, s3obj |-> s3obj, local |-> local, writable |-> writable]

Effect(op, ok) == [op |-> op, ok |-> ok]

Out(st, root, env, effects) == [st |-> st, root |-> root, env |-> env, effects |-> effects]

\* get_s3_root
get_s3_root(e, f) ==
    IF ~e.s3 THEN Out("NoS3Config", Directory_new, e, <<>>)
    ELSE IF ~f.list THEN Out("CantListBucketContent", Directory_new, e, <<Effect("s3_list", FALSE)>>)
    ELSE IF e.s3obj.kind = "missing"
    THEN Out("MissingRoot", Directory_new, e, <<Effect("s3_list", TRUE)>>)
    ELSE IF ~f.download
    THEN Out("DownloadFailed", Directory_new, e,
             <<Effect("s3_list", TRUE), Effect("s3_download", FALSE)>>)
    ELSE IF e.s3obj.kind = "corrupt"
    THEN Out("CorruptedRoot", Directory_new, e,
             <<Effect("s3_list", TRUE), Effect("s3_download", TRUE)>>)
    ELSE Out("ok", e.s3obj.root, e, <<Effect("s3_list", TRUE), Effect("s3_download", TRUE)>>)

\* save_s3_root: a failed upload is printed, not returned
save_s3_root(e, f, root) ==
    IF ~e.s3 THEN Out("ok", root, e, <<>>)
    ELSE IF f.upload
    THEN Out("ok", root, [e EXCEPT !.s3obj = Holds(root)], <<Effect("s3_upload", TRUE)>>)
    ELSE Out("ok", root, e, <<Effect("s3_upload", FALSE)>>)

\* AsyncGlobal::get_root
AsyncGlobal_get_root(e, f) ==
    LET s == get_s3_root(e, f)
        should_save_to_s3 == s.st = "MissingRoot"
    IN IF s.st = "ok" THEN s
       ELSE IF e.local.kind = "missing"
       THEN Out("ok", Directory_new, e, s.effects \o <<Effect("open", FALSE)>>)
       ELSE IF e.local.kind = "root"
       THEN IF should_save_to_s3
            THEN Out("ok", e.local.root, save_s3_root(e, f, e.local.root).env,
                     s.effects \o <<Effect("open", TRUE)>>
                         \o save_s3_root(e, f, e.local.root).effects)
            ELSE Out("ok", e.local.root, e, s.effects \o <<Effect("open", TRUE)>>)
       ELSE Out("ok", Directory_new, [e EXCEPT !.local = Missing],
                s.effects \o <<Effect("open", TRUE), Effect("remove_file", TRUE)>>)

\* AsyncGlobal::save_root: File::create(..).unwrap()
AsyncGlobal_save_root(e, f, root) ==
    IF ~e.writable THEN Out("panic", root, e, <<Effect("create", FALSE)>>)
    ELSE Out("ok", root, save_s3_root([e EXCEPT !.local = Holds(root)], f, root).env,
             <<Effect("create", TRUE)>>
                 \o save_s3_root([e EXCEPT !.local = Holds(root)], f, root).effects)

\* a mutant of BlockingGlobal::get_root: a root missing from the S3 is not
\* uploaded
BlockingGlobal_get_root_no_upload(e, f) ==
    LET s == get_s3_root(e, f)
    IN IF s.st = "ok" THEN s
       ELSE IF e.local.kind = "missing"
       THEN Out("ok", Directory_new, e, s.effects \o <<Effect("open", FALSE)>>)
       ELSE IF e.local.kind = "root"
       THEN Out("ok", e.local.root, e, s.effects \o <<Effect("open", TRUE)>>)
       ELSE Out("ok", Directory_new, [e EXCEPT !.local = Missing],
                s.effects \o <<Effect("open", TRUE), Effect("remove_file", TRUE)>>)

\* BlockingGlobal::get_root: the same calls, each driven by rt.block_on
BlockingGlobal_get_root(e, f) ==
    LET s == get_s3_root(e, f)
        should_save_to_s3 == s.st = "MissingRoot"
    IN IF s.st = "ok" THEN s
       ELSE IF e.local.kind = "missing"
       THEN Out("ok", Directory_new, e, s.effects \o <<Effect("open", FALSE)>>)
       ELSE IF e.local.kind = "root"
       THEN IF should_save_to_s3
            THEN Out("ok", e.local.root, save_s3_root(e, f, e.local.root).env,
                     s.effects \o <<Effect("open", TRUE)>>
                         \o save_s3_root(e, f, e.local.root).effects)
            ELSE Out("ok", e.local.root, e, s.effects \o <<Effect("open", TRUE)>>)
       ELSE Out("ok", Directory_new, [e EXCEPT !.local = Missing],
                s.effects \o <<Effect("open", TRUE), Effect("remove_file", TRUE)>>)

\* BlockingGlobal::save_root
BlockingGlobal_save_root(e, f, root) ==
    IF ~e.writable THEN Out("panic", root, e, <<Effect("create", FALSE)>>)
    ELSE Out("ok", root, save_s3_root([e EXCEPT !.local = Holds(root)], f, root).env,
             <<Effect("create", TRUE)>>
                 \o save_s3_root([e EXCEPT !.local = Holds(root)], f, root).effects)

\* Global::get_bucket
get_bucket(name) == IF name \in BucketNames THEN name ELSE None

\* Global::list_buckets
list_buckets == BucketOrder

\* Global::random_bucket
random_bucket(pick) == BucketOrder[(pick % Len(BucketOrder)) + 1]

\* impl GlobalTrait for Global, called with the arguments args
Global_call(method, args) ==
    IF method = "get_bucket" THEN <<get_bucket(args.name)>>
    ELSE IF method = "next_bucket" THEN <<next_bucket(args.size, args.exclude, args.pick)>>
    ELSE IF method = "list_buckets" THEN list_buckets
    ELSE IF method = "random_bucket" THEN <<random_bucket(args.pick)>>
    ELSE <<get_direct_block_count>>

\* impl GlobalTrait for AsyncGlobal: delegate! { to self.0 }
AsyncGlobal_call(method, args) == Global_call(method, args)

\* impl GlobalTrait for BlockingGlobal: delegate! { to self.0 }
BlockingGlobal_call(method, args) == Global_call(method, args)

\* the Directories a root file may hold
RootDirs ==
    {Directory_new,
     [t |-> "dir", children |-> With(NoChildren, "x", [bucket |-> "c", descriptor |-> 1]),
      metadata |-> [size |-> Size("Entries", 1)]]}

Objects == {Missing, Corrupt} \cup {Holds(root) : root \in RootDirs}

\* the outcomes of the S3 requests of one call
S3Outcomes == [list : BOOLEAN, download : BOOLEAN, upload : BOOLEAN]

Methods == {"get_bucket", "next_bucket", "list_buckets", "random_bucket",
            "get_direct_block_count"}

\* the arguments of the calls on the GlobalTrait
Args ==
    [name : BucketNames \cup {"z"}, size : {0, SmallMax + 1, BigMax + 1},
     exclude : SUBSET BucketNames, pick : 0..(Len(BucketOrder) - 1)]

InitRoot ==
    /\ store = EmptyStore
    /\ nextd = 1
    /\ tree \in {Env(s3, s3obj, local, writable) :
                    s3 \in BOOLEAN, s3obj \in Objects, local \in Objects, writable \in BOOLEAN}
    /\ direct_block_count \in 1..MaxFanout
    /\ buckets = BlockBuckets
    /\ last = [op |-> "new", st |-> "ok", async |-> <<>>, blocking |-> <<>>, pre |-> <<>>]

\* get_root() in both modes on the same outside world; the process goes on
\* in one of them
GetRoot ==
    /\ tree.t = "env"
    /\ \E f \in S3Outcomes, mode \in {"async", "blocking"} :
         \E a \in {AsyncGlobal_get_root(tree, f)}, b \in {BlockingGlobal_get_root(tree, f)} :
            /\ last' = [op |-> "get_root", st |-> "ok", async |-> a, blocking |-> b,
                        pre |-> tree]
            /\ tree' = IF mode = "async" THEN a.env ELSE b.env
    /\ UNCHANGED <<store, nextd, direct_block_count, buckets>>

\* save_root(root) in both modes
SaveRoot ==
    /\ tree.t = "env"
    /\ last.st # "panic"
    /\ \E f \in S3Outcomes, mode \in {"async", "blocking"}, root \in RootDirs :
         \E a \in {AsyncGlobal_save_root(tree, f, root)},
            b \in {BlockingGlobal_save_root(tree, f, root)} :
            /\ last' = [op |-> "save_root", st |-> IF mode = "async" THEN a.st ELSE b.st,
                        async |-> a, blocking |-> b, pre |-> tree]
            /\ tree' = IF mode = "async" THEN a.env ELSE b.env
    /\ UNCHANGED <<store, nextd, direct_block_count, buckets>>

\* a method of the GlobalTrait in both modes
TraitCall ==
    /\ tree.t = "env"
    /\ last.op = "new"
    /\ \E method \in Methods, args \in Args :
         last' = [op |-> method, st |-> "ok", async |-> AsyncGlobal_call(method, args),
                  blocking |-> BlockingGlobal_call(method, args), pre |-> args]
    /\ UNCHANGED <<store, nextd, tree, direct_block_count, buckets>>

\* ------------------------------------------------------------ the shell
\* tree holds the shell: what get_root reads (no S3, a local root file that
\* can be written), path and cwd of the loop, the clipboard, and the local
\* file down writes.  A command returns Result<(), String> with the shell as
\* it leaves it.
Shell(env, path, cwd, clipboard, out) ==
    [t |-> "shell", env |-> env, path |-> path, cwd |-> cwd, clipboard |-> clipboard,
     out |-> out]

NoS3 == [list |-> TRUE, download |-> TRUE, upload |-> TRUE]

\* global.get_root()
Root(sh) == BlockingGlobal_get_root(sh.env, NoS3).root

\* global.save_root(&dir)
Saved(sh, dir) == [sh EXCEPT !.env = BlockingGlobal_save_root(@, NoS3, dir).env]

\* let dir = match cwd.last() { Some(cwd) => cwd.get(global)?, None => global.get_root() }
CwdDirectory(w, sh) ==
    IF sh.cwd = <<>> THEN Ok(w, Root(sh))
    ELSE Await(StoredGet(w, sh.cwd[Len(sh.cwd)], "inode"), LAMBDA g :
         IF g.st # "ok" THEN g
         ELSE IF g.val.t # "dir" THEN Err(g.w, NoVal, E("Not in a directory.", "", 0))
         ELSE g)

\* if cwd.is_empty() { global.save_root(&dir) } else { cwd.put(global, dir.to_enum())? }
SaveCwd(w, sh, dir) ==
    IF sh.cwd = <<>> THEN Ok(w, Saved(sh, dir))
    ELSE Await(StoredPut(w, sh.cwd[Len(sh.cwd)], dir, "inode"), LAMBDA p :
         IF p.st # "ok" THEN Err(p.w, sh, p.err) ELSE Ok(p.w, sh))

\* mkdir_in_dir
mkdir_in_dir(w, parent_dir, new_dir) ==
    Await(DirectoryAdd(w, parent_dir, new_dir, Directory_new), LAMBDA a :
    IF a.st # "ok" THEN a
    ELSE Await(StoredGet(a.w, a.val.ret, "inode"), LAMBDA g :
         IF g.st # "ok" THEN [g EXCEPT !.val = a.val]
         ELSE IF g.val.t = "f"
         THEN Err(g.w, a.val, E("impossible, directory turned into a file !", "", 0))
         ELSE Ok(g.w, a.val)))

\* mkdir
mkdir(w, sh, name) ==
    IF sh.cwd = <<>>
    THEN Await(mkdir_in_dir(w, Root(sh), name), LAMBDA d :
         IF d.st # "ok" THEN Err(d.w, sh, d.err) ELSE Ok(d.w, Saved(sh, d.val.dir)))
    ELSE Await(CwdDirectory(w, sh), LAMBDA c :
         IF c.st # "ok" THEN Err(c.w, sh, c.err)
         ELSE Await(mkdir_in_dir(c.w, c.val, name), LAMBDA d :
              IF d.st # "ok" THEN Err(d.w, sh, d.err) ELSE SaveCwd(d.w, sh, d.val.dir)))

\* a mutant of cd: the name is pushed on path before the directory is
\* looked up
cd_push_first(w, sh, name) ==
    IF name = ".."
    THEN Ok(w, [sh EXCEPT !.path = IF @ = <<>> THEN @ ELSE SubSeq(@, 1, Len(@) - 1),
                          !.cwd = IF @ = <<>> THEN @ ELSE SubSeq(@, 1, Len(@) - 1)])
    ELSE Await(CwdDirectory(w, sh), LAMBDA c :
         IF c.st # "ok" THEN Err(c.w, [sh EXCEPT !.path = Append(@, name)], c.err)
         ELSE IF name \notin DirectoryList(c.val)
         THEN Err(c.w, [sh EXCEPT !.path = Append(@, name)], E("No such directory.", name, 0))
         ELSE Ok(c.w, [sh EXCEPT !.path = Append(@, name),
                                 !.cwd = Append(@, DirectoryGet(c.w, c.val, name).val.ret)]))

\* cd: the entry is not checked to be a directory
cd(w, sh, name) ==
    IF name = ".."
    THEN Ok(w, [sh EXCEPT !.path = IF @ = <<>> THEN @ ELSE SubSeq(@, 1, Len(@) - 1),
                          !.cwd = IF @ = <<>> THEN @ ELSE SubSeq(@, 1, Len(@) - 1)])
    ELSE Await(CwdDirectory(w, sh), LAMBDA c :
         IF c.st # "ok" THEN Err(c.w, sh, c.err)
         ELSE IF name \notin DirectoryList(c.val)
         THEN Err(c.w, sh, E("No such directory.", name, 0))
         ELSE Ok(c.w, [sh EXCEPT !.path = Append(@, name),
                                 !.cwd = Append(@, DirectoryGet(c.w, c.val, name).val.ret)]))

\* rm: in a directory below the root the panic-free error of remove is
\* returned after cwd.put
rm(w, sh, name, order) ==
    IF sh.cwd = <<>>
    THEN Await(DirectoryRemove(w, Root(sh), name, order), LAMBDA err :
         IF err.st = "panic" THEN err
         ELSE IF err.st # "ok" THEN Err(err.w, Saved(sh, err.val.dir), err.err)
         ELSE Ok(err.w, Saved(sh, err.val.dir)))
    ELSE Await(CwdDirectory(w, sh), LAMBDA c :
         IF c.st # "ok" THEN Err(c.w, sh, c.err)
         ELSE Await(DirectoryRemove(c.w, c.val, name, order), LAMBDA err :
              IF err.st = "panic" THEN err
              ELSE Await(SaveCwd(err.w, sh, err.val.dir), LAMBDA p :
                   IF p.st # "ok" THEN p
                   ELSE IF err.st # "ok" THEN Err(p.w, sh, err.err)
                   ELSE p)))

\* cut
cut(w, sh, name) ==
    IF sh.clipboard # NoStored THEN Err(w, sh, E("Clipboard is not empty.", "", 0))
    ELSE Await(CwdDirectory(w, sh), LAMBDA c :
         IF c.st # "ok" THEN Err(c.w, sh, c.err)
         ELSE Await(DirectoryUnlink(c.w, c.val, name), LAMBDA u :
              IF u.st # "ok" THEN Err(u.w, sh, u.err)
              ELSE Await(SaveCwd(u.w, sh, u.val.dir), LAMBDA p :
                   IF p.st # "ok" THEN p
                   ELSE Ok(p.w, [p.val EXCEPT !.clipboard = u.val.ret]))))

\* paste: clipboard.take() comes before dir.put
paste(w, sh, name) ==
    IF sh.clipboard = NoStored THEN Err(w, sh, E("Clipboard is empty.", "", 0))
    ELSE Await(CwdDirectory(w, sh), LAMBDA c :
         IF c.st # "ok" THEN Err(c.w, sh, c.err)
         ELSE Await(DirectoryPut(c.w, c.val, name, sh.clipboard), LAMBDA u :
              IF u.st # "ok" THEN Err(u.w, [sh EXCEPT !.clipboard = NoStored], u.err)
              ELSE SaveCwd(u.w, [sh EXCEPT !.clipboard = NoStored], u.val.dir)))

\* upload_to_dir, the local file read into data
upload_to_dir(w, data, name, parent) ==
    Await(FileCreate(w, data), LAMBDA f :
    IF f.st # "ok" THEN [f EXCEPT !.val = Left(parent, NoVal)]
    ELSE DirectoryAdd(f.w, parent, name, f.val))

\* upload_file
upload_file(w, sh, name, data) ==
    Await(CwdDirectory(w, sh), LAMBDA c :
    IF c.st # "ok" THEN Err(c.w, sh, c.err)
    ELSE Await(upload_to_dir(c.w, data, name, c.val), LAMBDA u :
         IF u.st # "ok" THEN Err(u.w, sh, u.err)
         ELSE SaveCwd(u.w, sh, u.val.dir)))

\* upload
upload(w, sh, name, data) ==
    Await(upload_file(w, sh, name, data), LAMBDA u :
    IF u.st # "ok" THEN Err(u.w, u.val, u.err) ELSE Ok(u.w, u.val))

RECURSIVE DownloadLoop(_, _, _, _, _)
\* download, the loop: while let Some(chunk) = stream.next()
DownloadLoop(w, sh, items, i, written) ==
    IF i > Len(items) THEN Ok(w, [sh EXCEPT !.out = written])
    ELSE IF ~items[i].ok
    THEN Err(w, [sh EXCEPT !.out = written], E("Failed to read file.", "", 0))
    ELSE DownloadLoop(w, sh, items, i + 1, written \o items[i].chunk)

\* download
download(w, sh, name) ==
    Await(CwdDirectory(w, sh), LAMBDA c :
    IF c.st # "ok" THEN Err(c.w, sh, c.err)
    ELSE Await(DirectoryGet(c.w, c.val, name), LAMBDA d :
         IF d.st # "ok" THEN Err(d.w, sh, d.err)
         ELSE Await(StoredGet(d.w, d.val.ret, "inode"), LAMBDA g :
              IF g.st # "ok" THEN Err(g.w, sh, g.err)
              ELSE IF g.val.t # "f" THEN Err(g.w, sh, E("Not a file.", "", 0))
              ELSE Await(FileGet(g.w, g.val), LAMBDA stream :
                   DownloadLoop(stream.w, sh, stream.items, 1, <<>>)))))

\* DirectoryOrStored
Dir(dir) == [k |-> "dir", dir |-> dir, stored |-> NoStored]

Stored_(stored) == [k |-> "stored", dir |-> Directory_new, stored |-> stored]

\* stored_to_dir
stored_to_dir(w, stored) ==
    Await(StoredGet(w, stored, "inode"), LAMBDA g :
    IF g.st # "ok" THEN g
    ELSE IF g.val.t = "f" THEN Err(g.w, NoVal, E("Can't convert Stored to dir, it's a file.", "", 0))
    ELSE g)

RECURSIVE RelLoop(_, _, _, _)
\* directory_of_rel_fs_path, the loop over the components of the entry's
\* path but the last, and the match that follows it
RelLoop(w, cur_dir, subentries, i) ==
    IF i > Len(subentries) - 1
    THEN IF cur_dir.k = "stored" THEN Ok(w, cur_dir.stored)
         ELSE Err(w, NoVal, E("Impossible, cur_dir is Directory not Stored", "", 0))
    ELSE Await(IF cur_dir.k = "dir" THEN Ok(w, cur_dir.dir) ELSE stored_to_dir(w, cur_dir.stored),
               LAMBDA real_cur_dir :
         IF real_cur_dir.st # "ok" THEN real_cur_dir
         ELSE Await(DirectoryGet(real_cur_dir.w, real_cur_dir.val, subentries[i]), LAMBDA sub_stored :
              IF sub_stored.st # "ok" THEN Err(sub_stored.w, NoVal, sub_stored.err)
              ELSE Await(StoredGet(sub_stored.w, sub_stored.val.ret, "inode"), LAMBDA inode :
                   IF inode.st # "ok" THEN inode
                   ELSE IF inode.val.t = "f"
                   THEN Err(inode.w, NoVal, E("is a file not a directory", subentries[i], 0))
                   ELSE RelLoop(inode.w, Stored_(sub_stored.val.ret), subentries, i + 1))))

\* directory_of_rel_fs_path: subentries is entry_path with root_path stripped
directory_of_rel_fs_path(w, root_dir, subentries) ==
    IF subentries = <<>> THEN Err(w, NoVal, E("both path seem to be equal !", "", 0))
    ELSE RelLoop(w, root_dir, subentries, 1)

RECURSIVE TreeLoop(_, _, _, _, _)
\* upload_tree, the loop over the entries WalkDir gives: an entry whose
\* directory is not found is put on the list `failed` and skipped
TreeLoop(w, sh, root_parent, entries, i) ==
    IF i > Len(entries)
    THEN Ok(w, IF sh.cwd = <<>> THEN Saved(sh, root_parent.dir) ELSE sh)
    ELSE Await(directory_of_rel_fs_path(w, root_parent, entries[i].path), LAMBDA d :
         IF d.st # "ok" THEN TreeLoop(d.w, sh, root_parent, entries, i + 1)
         ELSE Await(stored_to_dir(d.w, d.val), LAMBDA real_cur_dir :
              IF real_cur_dir.st # "ok" THEN Err(real_cur_dir.w, sh, real_cur_dir.err)
              ELSE Await(IF entries[i].dir
                         THEN [mkdir_in_dir(real_cur_dir.w, real_cur_dir.val,
                                            entries[i].path[Len(entries[i].path)])
                                  EXCEPT !.st = "ok"]
                         ELSE upload_to_dir(real_cur_dir.w, entries[i].data,
                                            entries[i].path[Len(entries[i].path)],
                                            real_cur_dir.val),
                         LAMBDA a :
                   IF a.st # "ok" THEN Err(a.w, sh, a.err)
                   ELSE Await(StoredPut(a.w, d.val, a.val.dir, "inode"), LAMBDA p :
                        IF p.st # "ok" THEN Err(p.w, sh, p.err)
                        ELSE TreeLoop(p.w, sh, root_parent, entries, i + 1)))))

\* upload_tree: entries are those of the local tree below its root, in the
\* order of the walk
upload_tree(w, sh, entries) ==
    TreeLoop(w, sh, IF sh.cwd = <<>> THEN Dir(Root(sh)) ELSE Stored_(sh.cwd[Len(sh.cwd)]),
             entries, 1)

\* an entry of a local tree: its path below the root of the tree, whether it
\* is a directory, the bytes of a file
Entry(path, dir, data) == [path |-> path, dir |-> dir, data |-> data]

\* the local trees given to up_tree, as WalkDir walks them: a directory
\* before what it holds
LocalTrees ==
    {<<Entry(<<"y">>, FALSE, Bytes(1, 0))>>,
     <<Entry(<<"x">>, TRUE, <<>>)>>,
     <<Entry(<<"x">>, TRUE, <<>>), Entry(<<"x", "y">>, FALSE, Bytes(1, 0))>>,
     <<Entry(<<"x">>, TRUE, <<>>), Entry(<<"x", "x">>, TRUE, <<>>),
       Entry(<<"x", "x", "y">>, FALSE, Bytes(2, 0)), Entry(<<"y">>, FALSE, Bytes(1, 10))>>}

\* exit
exit(w, sh) ==
    IF sh.clipboard # NoStored
    THEN Err(w, sh, E("Clipboard is not empty. Paste it somewhere first.", "", 0))
    ELSE Err(w, sh, E("SIGTERM", "", 0))

InitShell ==
    /\ store = EmptyStore
    /\ nextd = 1
    /\ tree = Shell(Env(FALSE, Missing, Missing, TRUE), <<>>, <<>>, NoStored, <<>>)
    /\ direct_block_count \in 1..MaxFanout
    /\ buckets = InodeBuckets
    /\ last = [op |-> "new", st |-> "ok", err |-> <<>>, log |-> <<>>, name |-> "",
               pre |-> Shell(Env(FALSE, Missing, Missing, TRUE), <<>>, <<>>, NoStored, <<>>),
               prestore |-> EmptyStore, ops |-> 0]

\* match func(&global, args, ..) { Ok(_) => {}, Err(e) => println!("Error: {}", e) }
Command(op, r, name) ==
    /\ store' = r.w.store
    /\ nextd' = r.w.nextd
    /\ tree' = IF r.st = "panic" THEN tree ELSE r.val
    /\ last' = [op |-> op, st |-> r.st, err |-> r.err, log |-> r.w.log, name |-> name,
                pre |-> tree, prestore |-> store, ops |-> last.ops + 1]
    /\ UNCHANGED <<direct_block_count, buckets>>

\* the loop is running: no command has panicked and no break was taken
Ready(cap) ==
    /\ tree.t = "shell"
    /\ last.st \notin {"panic", "stopped"}
    /\ last.ops < cap

Mkdir(faults, cap) ==
    /\ Ready(cap)
    /\ \E name \in Names, fails \in faults :
         \E r \in {mkdir(World(store, nextd, fails, <<1>>), tree, name)} :
            Command("mkdir", r, name)

Cd(faults, cap) ==
    /\ Ready(cap)
    /\ \E name \in Names \cup {".."}, fails \in faults :
         /\ name = ".." \/ Len(tree.cwd) < MaxCwd
         /\ \E r \in {cd(World(store, nextd, fails, <<0>>), tree, name)} :
               Command("cd", r, name)

\* root: path.clear(); cwd.clear()
root(w, sh) == Ok(w, [sh EXCEPT !.path = <<>>, !.cwd = <<>>])

RootCommand(cap) ==
    /\ Ready(cap)
    /\ \E r \in {root(World(store, nextd, {}, <<0>>), tree)} :
         Command("root", r, "")

Rm(faults, cap) ==
    /\ Ready(cap)
    /\ \E name \in Names, order \in Orders, fails \in faults :
         \E r \in {rm(World(store, nextd, fails, <<0>>), tree, name, order)} :
            Command("rm", r, name)

Cut(faults, cap) ==
    /\ Ready(cap)
    /\ \E name \in Names, fails \in faults :
         \E r \in {cut(World(store, nextd, fails, <<0>>), tree, name)} :
            Command("cut", r, name)

Paste(faults, cap) ==
    /\ Ready(cap)
    /\ \E name \in Names, fails \in faults :
         \E r \in {paste(World(store, nextd, fails, <<0>>), tree, name)} :
            Command("paste", r, name)

Up(faults, cap) ==
    /\ Ready(cap)
    /\ \E name \in Names, n \in 0..MaxFileLen, orc \in FewOracles, fails \in faults :
         \E r \in {upload(World(store, nextd, fails, orc), tree, name, Bytes(n, 0))} :
            Command("up", r, name)

UpTree(faults, cap) ==
    /\ Ready(cap)
    /\ \E entries \in LocalTrees, fails \in faults :
         \E r \in {upload_tree(World(store, nextd, fails, <<1>>), tree, entries)} :
            Command("up_tree", r, entries)

\* exit, and the loop's `if e == "SIGTERM" { break; }`
Exit(cap) ==
    /\ Ready(cap)
    /\ \E r \in {exit(World(store, nextd, {}, <<0>>), tree)} :
         Command("exit", IF r.err = E("SIGTERM", "", 0) THEN [r EXCEPT !.st = "stopped"] ELSE r, "")

\* context.read_line returns Err (the input has ended): Err(_) => break
EndOfInput(cap) ==
    /\ Ready(cap)
    /\ last' = [op |-> "read_line", st |-> "stopped", err |-> <<>>, log |-> <<>>, name |-> "",
                pre |-> tree, prestore |-> store, ops |-> last.ops + 1]
    /\ UNCHANGED <<store, nextd, tree, direct_block_count, buckets>>

Down(faults, cap) ==
    /\ Ready(cap)
    /\ \E name \in Names, fails \in faults :
         \E r \in {download(World(store, nextd, fails, <<0>>), tree, name)} :
            Command("down", r, name)

\* ------------------------------------------------ two creates, interleaved
\* tree holds two tasks, each a BlockType::create(data, 0) on the same
\* Global.  A task runs until it awaits a Source operation; any task may go
\* next there.  What a task has done is fixed by the number of Source
\* operations it has completed (n) and the descriptors its Source::create
\* calls returned (got): its next operation is read from the create played
\* again with them, and is then performed on the shared store.
Task(data, orc) ==
    [data |-> data, orc |-> orc, got |-> <<>>, n |-> 0, done |-> FALSE, st |-> "ok",
     val |-> NoTree]

Tasks(task, diverged) == [t |-> "tasks", task |-> task, diverged |-> diverged]

TaskIds == {1, 2}

\* the create of a task from its start, its Source::create calls returning
\* what they returned to it
Played(task, nd) ==
    BlockCreate([World(EmptyStore, nd, {}, task.orc) EXCEPT !.supply = task.got],
                task.data, 0)

\* the Source operation e with payload blob, on the shared store
Perform(w, e, blob) ==
    IF e.op = "create" THEN BucketCreate(w, e.bucket)
    ELSE IF e.op = "put" THEN BucketPut(w, e.bucket, e.desc, blob)
    ELSE IF e.op = "get" THEN BucketGet(w, e.bucket, e.desc)
    ELSE BucketDelete(w, e.bucket, e.desc)

InitTasks ==
    /\ store = EmptyStore
    /\ nextd = 1
    /\ tree \in {Tasks(<<Task(Bytes(n1, 0), o1), Task(Bytes(n2, 100), o2)>>, FALSE) :
                    n1 \in 0..MaxTaskLen, n2 \in 0..MaxTaskLen,
                    o1 \in FewOracles, o2 \in FewOracles}
    /\ direct_block_count \in 1..MaxFanout
    /\ buckets = BlockBuckets
    /\ last = [op |-> "new", p |-> 0, items |-> <<>>]

\* task p goes on to its next await: the Source operation it was suspended at
\* is performed, or the create returns
StepTask ==
    /\ tree.t = "tasks"
    /\ ~tree.diverged
    /\ \E p \in TaskIds :
         /\ ~tree.task[p].done
         /\ \E r \in {Played(tree.task[p], nextd)} :
              IF Len(r.w.log) = tree.task[p].n
              THEN /\ tree' = [tree EXCEPT !.task[p].done = TRUE, !.task[p].st = r.st,
                                           !.task[p].val = IF r.st = "ok" THEN r.val ELSE NoTree]
                   /\ last' = [op |-> "return", p |-> p, items |-> <<>>]
                   /\ UNCHANGED <<store, nextd>>
              ELSE \E e \in {r.w.log[tree.task[p].n + 1]} :
                   \E real \in {Perform(World(store, nextd, {}, <<0>>), e,
                                        r.w.sent[tree.task[p].n + 1])} :
                      /\ store' = real.w.store
                      /\ nextd' = real.w.nextd
                      /\ tree' = [tree EXCEPT
                                    !.task[p].n = @ + 1,
                                    !.task[p].got = IF e.op = "create" /\ real.st = "ok"
                                                    THEN Append(@, real.val) ELSE @,
                                    !.diverged = (real.st = "ok") # e.ok]
                      /\ last' = [op |-> e.op, p |-> p, items |-> <<>>]
    /\ UNCHANGED <<direct_block_count, buckets>>

\* block.get(global, range) on the tree a task returned, the stream drained
GetTask ==
    /\ tree.t = "tasks"
    /\ \E p \in TaskIds :
         /\ tree.task[p].done
         /\ tree.task[p].st = "ok"
         /\ \E g \in {BlockGet(World(store, nextd, {}, <<0>>), tree.task[p].val, FullRange)} :
              last' = [op |-> "get", p |-> p, items |-> g.items]
    /\ UNCHANGED <<store, nextd, tree, direct_block_count, buckets>>

\* --------------------------------------------- the recursion of create
\* BlockType::create call by call: a call of IndirectBlock::create runs its
\* loop and, when bytes remain, calls StoredBlock::create, which calls
\* BlockType::create on the remainder before anything else.  last holds the
\* arguments of the call that is running, its depth and the world it runs in.
\* direct_block_count is any usize the configuration file gives, 0 included.
InitCreate ==
    /\ store = EmptyStore
    /\ nextd = 1
    /\ tree = NoTree
    /\ direct_block_count \in 0..MaxFanout
    /\ buckets = BlockBuckets
    /\ last = [op |-> "init", st |-> "ok", err |-> <<>>, val |-> NoVal, log |-> <<>>,
               data |-> <<>>, range |-> Range(0, 0), items |-> <<>>,
               pre |-> NoTree, prestore |-> EmptyStore, puts |-> 0,
               created |-> <<>>, createdAt |-> 0]

\* BlockType::create(global, data, start) is called
CreateCall(faults) ==
    /\ last.op = "init"
    /\ \E n \in 0..MaxLen, s \in 0..MaxStart, orc \in Oracles, fails \in faults :
         last' = [op |-> "create_call", st |-> "ok", data |-> Bytes(n, 0), start |-> s,
                  depth |-> 0, w |-> World(store, nextd, fails, orc)]
    /\ UNCHANGED <<store, nextd, tree, direct_block_count, buckets>>

\* the running call of IndirectBlock::create: its loop, then either the
\* nested call for the tail or the way back
CreateStep ==
    /\ last.op = "create_call"
    /\ last.depth < MaxDepth
    /\ \E l \in {CreateLoop(last.w, <<>>, last.start, last.data, last.start)} :
         /\ store' = l.w.store
         /\ nextd' = l.w.nextd
         /\ last' = IF l.st = "ok" /\ l.val.start < last.start + Len(last.data)
                    THEN [op |-> "create_call", st |-> "ok",
                          data |-> Slice(last.data, l.val.start - last.start, Len(last.data)),
                          start |-> l.val.start, depth |-> last.depth + 1, w |-> l.w]
                    ELSE [op |-> "create_return", st |-> IF l.st = "ok" THEN "ok" ELSE "err",
                          data |-> last.data, start |-> last.start, depth |-> last.depth,
                          w |-> l.w]
    /\ UNCHANGED <<tree, direct_block_count, buckets>>

\* block.delete(global)
DeleteTree(faults) ==
    /\ tree # NoTree
    /\ last.st # "panic"
    /\ \E fails \in faults :
         \E r \in {BlockDelete(World(store, nextd, fails, <<0>>), tree)} :
            /\ store' = r.w.store
            /\ nextd' = r.w.nextd
            /\ tree' = NoTree
            /\ last' = Record("delete", r, <<>>, Range(0, 0), <<>>)
            /\ UNCHANGED <<direct_block_count, buckets>>

Next ==
    \/ CreateTree(OneFault)
    \/ CreateStored(OneFault)
    \/ RangeTree(OneFault)
    \/ GetTree(OneFault)
    \/ DeleteTree(OneFault)

Spec == Init /\ [][Next]_vars

\* create on a working backend, then one put
NextPut ==
    \/ CreateTree(NoFaults)
    \/ CreateStored(NoFaults)
    \/ PutTree(NoFaults, Oracles)

SpecPut == Init /\ [][NextPut]_vars

\* create on a working backend, then one put during which the backend may fail
NextPutFault ==
    \/ CreateTree(NoFaults)
    \/ CreateStored(NoFaults)
    \/ PutTree(OneFault, FewOracles)

SpecPutFault == Init /\ [][NextPutFault]_vars

\* create on a working backend, then one put whose data and range differ in
\* length
NextPutLen ==
    \/ CreateTree(NoFaults)
    \/ CreateStored(NoFaults)
    \/ PutLen(NoFaults, FewOracles)

SpecPutLen == Init /\ [][NextPutLen]_vars

\* create on a working backend, then a sequence of puts, each after a put
\* that returned Ok
NextPuts ==
    \/ CreateTree(NoFaults)
    \/ CreateStored(NoFaults)
    \/ PutTree(NoFaults, FewOracles)
    \/ PutMore(FewOracles)

SpecPuts == Init /\ [][NextPuts]_vars

\* create on a working backend, then one put that extends the tree
NextExtend ==
    \/ CreateTree(NoFaults)
    \/ Extend(Oracles)

SpecExtend == Init /\ [][NextExtend]_vars

\* one create, followed call by call
NextCreate ==
    \/ CreateCall(OneFault)
    \/ CreateStep

SpecCreate == InitCreate /\ [][NextCreate]_vars

\* the directories on a working backend
NextDir ==
    \/ AddFile(NoFaults, {"dir"}, MaxOps)
    \/ AddDir(NoFaults, MaxOps)
    \/ Remove(NoFaults, MaxOps)
    \/ Unlink(MaxOps)
    \/ Put(MaxOps)
    \/ Get(MaxOps)
    \/ DeleteDir(NoFaults, MaxOps)

SpecDir == InitInode /\ [][NextDir]_vars

\* the directories filled on a working backend, then a remove or a delete
\* during which the backend may fail
NextDirFault ==
    \/ AddFile(NoFaults, {"dir", "dst"}, MaxFaultOps - 1)
    \/ AddDir(NoFaults, MaxFaultOps - 1)
    \/ Remove(OneFault, MaxFaultOps)
    \/ DeleteDir(OneFault, MaxFaultOps)

SpecDirFault == InitInode /\ [][NextDirFault]_vars

\* the root read and saved, the GlobalTrait called, in both modes
NextRoot ==
    \/ GetRoot
    \/ SaveRoot
    \/ TraitCall

SpecRoot == InitRoot /\ [][NextRoot]_vars

\* the shell: directories made and entered on a working backend, then rm,
\* up, cut, paste and down during which the backend may fail
NextShell ==
    \/ Mkdir(NoFaults, MaxShellOps - 1)
    \/ Cd(NoFaults, MaxShellOps - 1)
    \/ Up(OneFault, MaxShellOps)
    \/ Rm(OneFault, MaxShellOps)
    \/ Cut(OneFault, MaxShellOps)
    \/ Paste(OneFault, MaxShellOps)
    \/ Down(OneFault, MaxShellOps)

SpecShell == InitShell /\ [][NextShell]_vars

\* the shell: files and directories made on a working backend, then cut and
\* paste during which the backend may fail
NextMove ==
    \/ Mkdir(NoFaults, MaxMoveOps - 1)
    \/ Cd(NoFaults, MaxMoveOps - 1)
    \/ Up(NoFaults, MaxMoveOps - 1)
    \/ Cut(OneFault, MaxMoveOps)
    \/ Paste(OneFault, MaxMoveOps)

SpecMove == InitShell /\ [][NextMove]_vars

\* the shell until its loop is left: entries made, cut and pasted, then exit
\* or the end of the input
NextExit ==
    \/ Mkdir(NoFaults, MaxExitOps - 1)
    \/ Cut(NoFaults, MaxExitOps - 1)
    \/ Paste(NoFaults, MaxExitOps - 1)
    \/ Exit(MaxExitOps)
    \/ EndOfInput(MaxExitOps)

SpecExit == InitShell /\ [][NextExit]_vars

\* the shell moving through the directories, the backend failing or not
NextCwd ==
    \/ Mkdir(NoFaults, MaxCwdOps - 1)
    \/ Up(NoFaults, MaxCwdOps - 1)
    \/ Cd(OneFault, MaxCwdOps)
    \/ RootCommand(MaxCwdOps)

SpecCwd == InitShell /\ [][NextCwd]_vars

\* the shell: directories made and entered, then a local tree uploaded
NextTree ==
    \/ Mkdir(NoFaults, MaxTreeOps - 1)
    \/ Cd(NoFaults, MaxTreeOps - 1)
    \/ UpTree(NoFaults, MaxTreeOps)

SpecTree == InitShell /\ [][NextTree]_vars

\* two creates interleaved at every Source operation, then read
NextTasks ==
    \/ StepTask
    \/ GetTask

SpecTasks == InitTasks /\ [][NextTasks]_vars

\* a Direct alone: created, read, deleted, the backend failing at most once
\* in each operation
NextDirect ==
    \/ CreateDirect(OneFault)
    \/ RangeTree(OneFault)
    \/ GetTree(OneFault)
    \/ DeleteTree(OneFault)

SpecDirect == Init /\ [][NextDirect]_vars

\* the bucket selector alone
NextGlobal == NextBucket

SpecGlobal == Init /\ [][NextGlobal]_vars

\* a Stored alone: created, overwritten, read, the backend failing at most
\* once in each call
NextStored ==
    \/ CreateHandle(OneFault)
    \/ PutHandle(OneFault)
    \/ GetHandle(OneFault)

SpecStored == Init /\ [][NextStored]_vars

\* the URL form of a Stored alone
NextUrl == UrlRoundTrip

SpecUrl == Init /\ [][NextUrl]_vars

\* ------------------------------------------------- reading a state (ghost)
RECURSIVE Flatten(_, _)
\* the concatenation of the chunks of a stream
Flatten(items, i) ==
    IF i > Len(items) THEN <<>> ELSE items[i].chunk \o Flatten(items, i + 1)

AllOk(items) == \A i \in 1..Len(items) : items[i].ok

NoFault(log) == \A i \in 1..Len(log) : log[i].ok

\* the position of the first backend operation that failed (0: none)
FirstFailure(log) ==
    IF NoFault(log) THEN 0
    ELSE CHOOSE i \in 1..Len(log) : ~log[i].ok /\ \A j \in 1..(i - 1) : log[j].ok

Handle(e) == <<e.bucket, e.desc>>

\* a delete of the blob h was issued after position i of the log
DeletedAfter(log, i, h) ==
    \E j \in (i + 1)..Len(log) : log[j].op = "delete" /\ Handle(log[j]) = h

Quiet(s) == World(s, 0, {}, <<0>>)

\* what a get on a working backend streams from block blk in store s
Read(s, blk) == Flatten(BlockGet(Quiet(s), blk, FullRange).items, 1)

RECURSIVE Leaves(_, _), LeavesOf(_, _, _)
\* the Direct leaves of the subtree, left to right, tails resolved in store s
Leaves(s, blk) ==
    IF blk.t = "d" THEN <<blk>>
    ELSE IF blk.t = "i" THEN LeavesOf(s, blk.blocks, 1)
    ELSE Leaves(s, s[<<blk.stored.bucket, blk.stored.descriptor>>].val)

LeavesOf(s, blocks, i) ==
    IF i > Len(blocks) THEN <<>> ELSE Leaves(s, blocks[i]) \o LeavesOf(s, blocks, i + 1)

RECURSIVE AllStored(_, _)
\* every (bucket, descriptor) referenced anywhere in the subtree
AllStored(s, blk) ==
    IF blk.t = "d" THEN {<<blk.stored.bucket, blk.stored.descriptor>>}
    ELSE IF blk.t = "i"
    THEN UNION {AllStored(s, blk.blocks[i]) : i \in 1..Len(blk.blocks)}
    ELSE {<<blk.stored.bucket, blk.stored.descriptor>>}
         \cup (IF /\ <<blk.stored.bucket, blk.stored.descriptor>> \in DOMAIN s
                  /\ s[<<blk.stored.bucket, blk.stored.descriptor>>].ty = "block"
               THEN AllStored(s, s[<<blk.stored.bucket, blk.stored.descriptor>>].val)
               ELSE {})

RECURSIVE Shape(_, _), ShapeOf(_, _, _)
\* the number of children of every Indirect of the subtree, in preorder
\* (a StoredBlock counts as -1, a Direct as -2)
Shape(s, blk) ==
    IF blk.t = "d" THEN <<-2>>
    ELSE IF blk.t = "i" THEN <<Len(blk.blocks)>> \o ShapeOf(s, blk.blocks, 1)
    ELSE <<-1>> \o Shape(s, s[<<blk.stored.bucket, blk.stored.descriptor>>].val)

ShapeOf(s, blocks, i) ==
    IF i > Len(blocks) THEN <<>> ELSE Shape(s, blocks[i]) \o ShapeOf(s, blocks, i + 1)

\* the tree holds a StoredBlock tail whose inner block holds another one
HasTail(blk) == blk.t = "i" /\ Len(blk.blocks) > 0 /\ blk.blocks[Len(blk.blocks)].t = "s"

Inner(s, blk) == s[<<blk.stored.bucket, blk.stored.descriptor>>].val

HasNestedTail(s, blk) ==
    HasTail(blk) /\ HasTail(Inner(s, blk.blocks[Len(blk.blocks)]))

\* ---------------------------------------------------------------- claims

\* C1: round-trip. A get on a working backend over the tree that
\* BlockType::create(D, 0) (or StoredBlock::create) returned streams only Ok
\* chunks, and their concatenation is exactly D.
C1_RoundTrip ==
    (last.op = "get" /\ NoFault(last.log))
        => AllOk(last.items) /\ Flatten(last.items, 1) = last.created

C1_Witness ==
    /\ last.op = "get"
    /\ NoFault(last.log)
    /\ Len(last.created) = MaxLen
    /\ HasNestedTail(store, tree)
    /\ Flatten(last.items, 1) = last.created

\* C2 as stated: after create(D, s), range() equals s..s+len(D) for every D
\* and every s.
C2_Original ==
    (last.op = "range" /\ NoFault(last.log))
        => /\ last.st = "ok"
           /\ last.val = Range(last.createdAt, last.createdAt + Len(last.created))

\* C2 amended: after create(D, s) with D non-empty or s = 0, range() equals
\* s..s+len(D); after create of an empty D, range() is 0..0 whatever s is.
C2_Range ==
    (last.op = "range" /\ NoFault(last.log))
        => /\ last.st = "ok"
           /\ (Len(last.created) > 0 \/ last.createdAt = 0)
                 => last.val = Range(last.createdAt, last.createdAt + Len(last.created))
           /\ Len(last.created) = 0 => last.val = Range(0, 0)

C2_Witness ==
    /\ last.op = "range"
    /\ NoFault(last.log)
    /\ last.createdAt = 1
    /\ HasTail(tree)
    /\ last.val = Range(1, 1 + MaxLen)

\* range() of a block on a working backend
RangeOf(s, blk) == BlockRange(Quiet(s), blk).val

\* old with the bytes from offset off on replaced by new
Replace(old, off, new) ==
    [i \in 1..Len(old) |-> IF i > off /\ i <= off + Len(new) THEN new[i - off] ELSE old[i]]

\* the offsets at which a child of the Indirect starts or ends
ChildBounds(s, blk) ==
    UNION {{RangeOf(s, blk.blocks[i]).start, RangeOf(s, blk.blocks[i]).end} :
              i \in 1..Len(blk.blocks)}

\* C3: same-length overwrite. On a tree created from D at offset 0, with or
\* without a StoredBlock tail, put(D', 0..len(D')) with len(D') = len(D)
\* returns Ok on a working backend; a get then streams exactly D', and the
\* range and the number of children at every level are as before.
C3_SameLength ==
    (/\ last.op = "put"
     /\ last.createdAt = 0
     /\ last.range.start = 0
     /\ Len(last.data) = Len(last.created))
        => /\ last.st = "ok"
           /\ AllOk(BlockGet(Quiet(store), tree, FullRange).items)
           /\ Read(store, tree) = last.data
           /\ RangeOf(store, tree) = RangeOf(last.prestore, last.pre)
           /\ Shape(store, tree) = Shape(last.prestore, last.pre)

C3_Witness ==
    /\ last.op = "put"
    /\ last.st = "ok"
    /\ last.createdAt = 0
    /\ last.range = Range(0, MaxLen)
    /\ Len(last.created) = MaxLen
    /\ HasNestedTail(store, tree)
    /\ Read(store, tree) = last.data
    /\ Read(last.prestore, last.pre) = last.created

\* C4: partial overwrite. For an Indirect covering a..b and a sub-range
\* [s, e) with a <= s < e <= b whose ends fall on child boundaries,
\* put(bytes, s..e) returns Ok and a get then returns the previous contents
\* with exactly the bytes of [s, e) replaced.
C4_PartialOverwrite ==
    (/\ last.op = "put"
     /\ last.pre.t = "i"
     /\ Len(last.pre.blocks) > 0
     /\ RangeOf(last.prestore, last.pre).start <= last.range.start
     /\ last.range.start < last.range.end
     /\ last.range.end <= RangeOf(last.prestore, last.pre).end
     /\ last.range.start \in ChildBounds(last.prestore, last.pre)
     /\ last.range.end \in ChildBounds(last.prestore, last.pre))
        => /\ last.st = "ok"
           /\ Read(store, tree)
                = Replace(Read(last.prestore, last.pre),
                          last.range.start - RangeOf(last.prestore, last.pre).start,
                          last.data)

\* C5: rollback law. If DirectBlock::create fails for the k-th Direct child
\* of IndirectBlock::create (the first failing backend operation is among the
\* operations of the first F children), delete has been invoked on every
\* Direct child created earlier in the call before the error is returned.
C5_Rollback ==
    (/\ last.op = "create"
     /\ last.st = "err"
     /\ FirstFailure(last.log) \in 1..(2 * direct_block_count))
        => \A i \in 1..(FirstFailure(last.log) - 2) :
              last.log[i].op = "create"
                  => DeletedAfter(last.log, FirstFailure(last.log), Handle(last.log[i]))

\* C6: the rollback covers the tail. If creating the StoredBlock tail fails
\* inside IndirectBlock::create (the first failing backend operation comes
\* after those of the F Direct children), delete has been invoked on
\* every Direct sibling, and, when it is the put of the serialized inner
\* block that failed, on every blob of the inner subtree too.
C6_TailRollback ==
    (/\ last.op = "create"
     /\ last.st = "err"
     /\ FirstFailure(last.log) > 2 * direct_block_count)
        => /\ \A i \in 1..(2 * direct_block_count) :
                 last.log[i].op = "create"
                     => DeletedAfter(last.log, FirstFailure(last.log), Handle(last.log[i]))
           /\ (/\ last.log[FirstFailure(last.log)].op = "put"
               /\ last.log[FirstFailure(last.log)].ty = "block")
                 => \A i \in 1..(FirstFailure(last.log) - 2) :
                       last.log[i].op = "create"
                           => DeletedAfter(last.log, FirstFailure(last.log), Handle(last.log[i]))

\* C7: cleanup law. Whenever delete() returns Ok on a subtree, bucket.delete
\* has been invoked for every Stored referenced anywhere in it: every Direct
\* leaf's blob and every StoredBlock wrapper's blob, through the tails.
C7_Cleanup ==
    (last.op = "delete" /\ last.st = "ok")
        => \A h \in AllStored(last.prestore, last.pre) : DeletedAfter(last.log, 0, h)

C7_Witness ==
    /\ last.op = "delete"
    /\ last.st = "ok"
    /\ HasNestedTail(last.prestore, last.pre)
    /\ Cardinality(AllStored(last.prestore, last.pre)) = MaxLen + 2
    /\ store = EmptyStore

RECURSIVE FanoutLaw(_, _, _, _)
\* blk is what IndirectBlock::create returns for the bytes of start..end
FanoutLaw(s, blk, start, end) ==
    LET bl == blk.blocks
        n == Len(bl)
        nd == Cardinality({i \in 1..n : bl[i].t = "d"})
        covered == IF nd = 0 THEN start ELSE bl[nd].end
    IN /\ blk.t = "i"
       /\ nd <= direct_block_count
       /\ \A i \in 1..nd : bl[i].t = "d"
       /\ IF covered < end
          THEN /\ nd = direct_block_count
               /\ n = direct_block_count + 1
               /\ bl[n].t = "s"
               /\ RangeOf(s, bl[n]) = Range(covered, end)
               /\ FanoutLaw(s, Inner(s, bl[n]), covered, end)
          ELSE n = nd

\* C8: fanout law for create. IndirectBlock::create returns an Indirect whose
\* children are at most F Directs in order; when bytes remain after them
\* the children are exactly F Directs followed by one StoredBlock, the
\* last child, holding the whole remainder; when none remain there is no
\* StoredBlock child.  The same holds of the Indirect inside every tail.
C8_FanoutLaw ==
    (last.op \in {"create", "create_stored"} /\ last.st = "ok")
        => FanoutLaw(store,
                     IF last.op = "create" THEN tree ELSE Inner(store, tree),
                     last.range.start, last.range.end)

C8_Witness ==
    /\ last.op = "create"
    /\ last.st = "ok"
    /\ Len(tree.blocks) = direct_block_count + 1
    /\ tree.blocks[direct_block_count + 1].t = "s"
    /\ Len(Inner(store, tree.blocks[direct_block_count + 1]).blocks) = direct_block_count + 1

\* C9: size admission. Every bucket.put the engine issues carries a payload
\* whose length is at most that bucket's max_size.
C9_SizeAdmission ==
    \A i \in 1..Len(last.log) :
        last.log[i].op = "put" => last.log[i].len <= max_size(last.log[i].bucket)

\* C10: stream ordering. Within one get stream the Ok chunks come in strictly
\* increasing logical offset; a stream of Ok chunks only holds the leaves of
\* the tree from left to right, tails included, each leaf exactly once.
C10_StreamOrder ==
    last.op = "get"
        => LET oks == SelectSeq(last.items, LAMBDA it : it.ok)
               leaves == Leaves(store, tree)
           IN /\ \A i, j \in 1..Len(oks) : i < j => oks[i].at < oks[j].at
              /\ AllOk(last.items)
                    => /\ Len(last.items) = Len(leaves)
                       /\ \A i \in 1..Len(leaves) :
                             /\ last.items[i].at = leaves[i].start
                             /\ last.items[i].chunk
                                  = store[<<leaves[i].stored.bucket,
                                            leaves[i].stored.descriptor>>].val

C10_Witness ==
    /\ last.op = "get"
    /\ AllOk(last.items)
    /\ Len(last.items) = MaxLen
    /\ HasNestedTail(store, tree)

\* the first backend operation that failed
Failed == last.log[FirstFailure(last.log)]

\* the put on an Indirect returned the error of its loop over the existing
\* children: the loop alone, run on the tree as it was with the same failing
\* backend operation, returns it
PutLoopFailed ==
    /\ last.op = "put"
    /\ last.pre.t = "i"
    /\ last.st = "err"
    /\ FirstFailure(last.log) > 0
    /\ PutLoop(World(last.prestore, 0, {FirstFailure(last.log)}, <<0>>),
               last.pre.blocks, 1, last.data, last.range.start).st = "err"
    /\ \E i \in 1..Len(last.pre.blocks) :
          Handle(Failed) \in AllStored(last.prestore, last.pre.blocks[i])

\* the child whose update failed
FailedChild ==
    CHOOSE i \in 1..Len(last.pre.blocks) :
        Handle(Failed) \in AllStored(last.prestore, last.pre.blocks[i])

\* the child of the Indirect that owns the blob of a log entry (0: none)
ChildOf(e) ==
    IF \E i \in 1..Len(last.pre.blocks) :
          Handle(e) \in AllStored(last.prestore, last.pre.blocks[i])
    THEN CHOOSE i \in 1..Len(last.pre.blocks) :
          Handle(e) \in AllStored(last.prestore, last.pre.blocks[i])
    ELSE 0

\* C11: non-atomic put ordering. When the update of child i fails within a
\* put on an Indirect, the error is returned at once; the children before i
\* hold their slice of the new bytes, the backend operations were issued in
\* the stored order of the children, no operation touched a child after i
\* (it reads as before), and no child was appended.
C11_PutOrdering ==
    PutLoopFailed
        => /\ FirstFailure(last.log) = Len(last.log)
           /\ Len(tree.blocks) = Len(last.pre.blocks)
           /\ \A a, b \in 1..Len(last.log) :
                 a < b => ChildOf(last.log[a]) <= ChildOf(last.log[b])
           /\ \A j \in 1..Len(last.pre.blocks) :
                 /\ j < FailedChild
                       => Read(store, last.pre.blocks[j])
                            = Slice(last.data,
                                    RangeOf(last.prestore, last.pre.blocks[j]).start
                                        - last.range.start,
                                    RangeOf(last.prestore, last.pre.blocks[j]).end
                                        - last.range.start)
                 /\ j > FailedChild
                       => /\ \A a \in 1..Len(last.log) : ChildOf(last.log[a]) # j
                          /\ Read(store, last.pre.blocks[j])
                               = Read(last.prestore, last.pre.blocks[j])

C11_Witness ==
    /\ PutLoopFailed
    /\ Len(last.pre.blocks) = 3
    /\ FailedChild = 2
    /\ Read(store, last.pre.blocks[1]) # Read(last.prestore, last.pre.blocks[1])
    /\ Read(store, last.pre.blocks[3]) = Read(last.prestore, last.pre.blocks[3])

\* the positions of the log at which operation op was issued on blob h
Issued(log, op, h) == {a \in 1..Len(log) : log[a].op = op /\ Handle(log[a]) = h}

\* the Stored a child holds itself: a Direct's blob, a StoredBlock's wrapper
Own(blk) == <<blk.stored.bucket, blk.stored.descriptor>>

\* the backend operations that failed
Failures(log) == {a \in 1..Len(log) : ~log[a].ok}

\* C12: Indirect.delete is a best-effort sweep. It invokes delete on every
\* child exactly once, in stored order, whatever failed before; it returns
\* Ok iff every child delete succeeded, and otherwise an Err that holds the
\* error of every child that failed.
C12_DeleteSweep ==
    (last.op = "delete" /\ last.pre.t = "i")
        => /\ last.st \in {"ok", "err"}
           /\ \A i \in 1..Len(last.pre.blocks) :
                 Cardinality(Issued(last.log, "delete", Own(last.pre.blocks[i]))) = 1
           /\ \A i, j \in 1..Len(last.pre.blocks) :
                 i < j => \A a \in Issued(last.log, "delete", Own(last.pre.blocks[i])),
                             b \in Issued(last.log, "delete", Own(last.pre.blocks[j])) : a < b
           /\ last.st = "ok" <=> NoFault(last.log)
           /\ Len(last.err) = Cardinality(Failures(last.log))

\* C13: StoredBlock.delete always attempts to delete the wrapper's own
\* Stored. When the inner block cannot be fetched it does not panic: it
\* reports the error and still issues the outer delete; it returns Err iff a
\* step failed, with the errors of all the steps that failed.
C13_OuterDelete ==
    (last.op = "delete" /\ last.pre.t = "s")
        => /\ last.st \in {"ok", "err"}
           /\ Issued(last.log, "delete", Own(last.pre)) # {}
           /\ last.st = "err" <=> ~NoFault(last.log)
           /\ Len(last.err) = Cardinality(Failures(last.log))

\* the backend operations that write: everything but get
Writes(log) == {a \in 1..Len(log) : log[a].op # "get"}

\* C14: length-mismatch rejection. put(bytes, range) on an Indirect, or on a
\* StoredBlock wrapping one, with len(bytes) # range.end - range.start
\* returns an error (it does not panic) and performs no backend write: the
\* subtree is as it was.
C14_LengthMismatch ==
    (/\ last.op = "put"
     /\ Len(last.data) # last.range.end - last.range.start)
        => /\ last.st = "err"
           /\ Writes(last.log) = {}
           /\ store = last.prestore
           /\ tree = last.pre

RECURSIVE Contiguous(_, _)
\* in the subtree every child of every Indirect has a non-empty range, each
\* child starts where the one before it ends, and the range of an Indirect
\* runs from the start of its first child to the end of its last
Contiguous(s, blk) ==
    IF blk.t = "d" THEN blk.start < blk.end
    ELSE IF blk.t = "s" THEN Contiguous(s, Inner(s, blk))
    ELSE /\ \A i \in 1..Len(blk.blocks) :
              /\ RangeOf(s, blk.blocks[i]).start < RangeOf(s, blk.blocks[i]).end
              /\ Contiguous(s, blk.blocks[i])
         /\ \A i \in 1..(Len(blk.blocks) - 1) :
              RangeOf(s, blk.blocks[i]).end = RangeOf(s, blk.blocks[i + 1]).start
         /\ Len(blk.blocks) > 0
              => RangeOf(s, blk) = Range(RangeOf(s, blk.blocks[1]).start,
                                         RangeOf(s, blk.blocks[Len(blk.blocks)]).end)

\* the tree was built by create and puts that all returned Ok
BuiltOk == tree # NoTree /\ last.op \in {"create", "create_stored", "put"} /\ last.st = "ok"

\* C15: contiguity. In every tree reached by create followed by successful
\* puts, every child of every Indirect has a non-empty range and consecutive
\* children satisfy child[i].end = child[i+1].start; the range of the
\* Indirect is first.start..last.end.
C15_Contiguity == BuiltOk => Contiguous(store, tree)

RECURSIVE Handles(_, _), HandlesOf(_, _, _)
\* the (bucket, descriptor) of every node of the subtree, one entry per node:
\* the Direct leaves and the StoredBlock wrappers, at any depth; a wrapper
\* whose blob is missing or is not a block has nothing below it
Handles(s, blk) ==
    IF blk.t = "d" THEN <<Own(blk)>>
    ELSE IF blk.t = "i" THEN HandlesOf(s, blk.blocks, 1)
    ELSE <<Own(blk)>> \o (IF Own(blk) \in DOMAIN s /\ s[Own(blk)].ty = "block"
                           THEN Handles(s, Inner(s, blk))
                           ELSE <<>>)

HandlesOf(s, blocks, i) ==
    IF i > Len(blocks) THEN <<>> ELSE Handles(s, blocks[i]) \o HandlesOf(s, blocks, i + 1)

\* C16: exclusive ownership. In every tree reached by create and put no two
\* nodes, Direct leaves or StoredBlock wrappers at any depth, reference the
\* same (bucket, descriptor), and every node references a blob that exists,
\* whether the last put returned Ok or not.
C16_Exclusive ==
    (tree # NoTree /\ last.op \in {"create", "create_stored", "put"})
        => LET h == Handles(store, tree)
           IN /\ \A i, j \in 1..Len(h) : i # j => h[i] # h[j]
              /\ \A i \in 1..Len(h) : h[i] \in DOMAIN store

C16_Witness ==
    /\ BuiltOk
    /\ last.puts = MaxPuts
    /\ Len(Handles(store, tree)) > Len(Handles(last.prestore, last.pre))
    /\ Len(Handles(last.prestore, last.pre)) > MaxLen
    /\ LET h == Handles(store, tree)
       IN \E i, j \in 1..Len(h) : i # j /\ h[i][1] = h[j][1]

\* C17: empty-Direct rejection. DirectBlock::create with empty bytes returns
\* an error for every start offset, and no blob is reserved or written in any
\* bucket.
C17_EmptyDirect ==
    (last.op = "create_direct" /\ last.data = <<>>)
        => /\ last.st = "err"
           /\ last.log = <<>>
           /\ store = last.prestore
           /\ tree = NoTree

C17_Witness ==
    /\ last.op = "create_direct"
    /\ last.data = <<>>
    /\ last.range.start = MaxStart
    /\ last.st = "err"
    /\ store = EmptyStore

\* the configured buckets that accept min_size and are not excluded
Accepting(min_size, exclude) ==
    {b \in BucketNames : max_size(b) >= min_size /\ b \notin exclude}

\* C18: bucket selection. next_bucket(min_size, exclude) returns only a bucket
\* whose max_size >= min_size and that is not in exclude; it returns None iff
\* no configured bucket satisfies both; every bucket that satisfies both is
\* the result for some outcome of the random choice.
C18_NextBucket ==
    last.op = "next_bucket"
        => /\ last.val # None => last.val \in Accepting(last.min_size, last.exclude)
           /\ last.val = None <=> Accepting(last.min_size, last.exclude) = {}
           /\ \A b \in Accepting(last.min_size, last.exclude) :
                 \E pick \in 0..(Len(BucketOrder) - 1) :
                     next_bucket(last.min_size, last.exclude, pick) = b

C18_Witness ==
    /\ last.op = "next_bucket"
    /\ last.min_size = SmallMax + 1
    /\ last.exclude = {"z"}
    /\ last.pick = 0
    /\ last.val = "c"

\* C19: Stored round-trip with stable binding. A get after Stored::create(v)
\* returns v; after put(v') on the same handle a get returns v'. The put
\* issues one backend operation, a put to the bucket and descriptor of the
\* handle, picks no bucket, and leaves the handle's fields unchanged.
C19_StoredRoundTrip ==
    /\ (last.op = "stored_get" /\ NoFault(last.log))
          => last.st = "ok" /\ last.val = last.held
    /\ (last.op = "stored_put" /\ NoFault(last.log))
          => /\ last.st = "ok"
             /\ tree = last.pre
             /\ last.picks = 0
             /\ Len(last.log) = 1
             /\ last.log[1].op = "put"
             /\ Handle(last.log[1]) = Own(tree)
             /\ store[Own(tree)].val = last.data
             /\ DOMAIN store = DOMAIN last.prestore

C19_Witness ==
    /\ last.op = "stored_get"
    /\ last.st = "ok"
    /\ last.puts = MaxPuts
    /\ tree.ty = "block"
    /\ last.val = SampleBlock(MaxChildren)
    /\ last.val = last.held

\* C20: URL round-trip. For a Stored with any bucket name and any descriptor
\* bytes, as_url contains exactly one literal $, and from_url of the two
\* parts it separates returns a Stored equal to the first.
C20_UrlRoundTrip ==
    last.op = "as_url"
        => /\ Cardinality(Dollars(last.url)) = 1
           /\ last.val.st = "ok"
           /\ last.val.val = last.stored

C20_Witness ==
    /\ last.op = "as_url"
    /\ last.stored = [bucket |-> <<37, 50, 52>>, descriptor |-> <<36>>]
    /\ last.url = <<37, 50, 53, 50, 52, 36, 37, 50, 52>>
    /\ last.val.val = last.stored

\* the put extends the tree create(D1, 0) returned: its bytes are D1 ++ D2
\* with D2 non-empty, its range is 0..len(D1)+len(D2)
Extends ==
    /\ last.op = "put"
    /\ last.puts = 1
    /\ last.pre.t = "i"
    /\ last.createdAt = 0
    /\ last.range = Range(0, Len(last.data))
    /\ Len(last.data) > Len(last.created)
    /\ SubSeq(last.data, 1, Len(last.created)) = last.created

\* C29: extension by put. After create(D1, 0), put(D1 ++ D2, 0..len(D1)+len(D2))
\* with D2 non-empty returns Ok; range() is then 0..len(D1)+len(D2) and a get
\* streams exactly D1 ++ D2; the children the Indirect had stay where they
\* were, a Direct is appended only at a position up to F, and what is left
\* goes to one StoredBlock appended last, behind at least F children.
C29_Extension ==
    Extends
        => /\ last.st = "ok"
           /\ RangeOf(store, tree) = Range(0, Len(last.data))
           /\ AllOk(BlockGet(Quiet(store), tree, FullRange).items)
           /\ Read(store, tree) = last.data
           /\ LET old == last.pre.blocks
                  new == tree.blocks
              IN /\ Len(new) >= Len(old)
                 /\ \A i \in 1..Len(old) : new[i] = old[i]
                 /\ \A i \in (Len(old) + 1)..Len(new) :
                       /\ new[i].t \in {"d", "s"}
                       /\ new[i].t = "d" => i <= direct_block_count
                       /\ new[i].t = "s" => i = Len(new) /\ i > direct_block_count

C29_Witness ==
    /\ Extends
    /\ last.st = "ok"
    /\ direct_block_count = MaxFanout
    /\ Len(last.pre.blocks) = 1
    /\ Len(tree.blocks) = MaxFanout + 1
    /\ tree.blocks[MaxFanout].t = "d"
    /\ tree.blocks[MaxFanout + 1].t = "s"
    /\ Read(store, tree) = last.data

RECURSIVE NodeShape(_, _)
\* every Indirect of the subtree holds at most F Direct children, all of them
\* before any StoredBlock child, and at most one StoredBlock
NodeShape(s, blk) ==
    IF blk.t = "d" THEN TRUE
    ELSE IF blk.t = "s" THEN NodeShape(s, Inner(s, blk))
    ELSE LET bl == blk.blocks
             directs == {i \in 1..Len(bl) : bl[i].t = "d"}
             tails == {i \in 1..Len(bl) : bl[i].t = "s"}
         IN /\ Cardinality(directs) <= direct_block_count
            /\ \A i \in directs, j \in tails : i < j
            /\ Cardinality(tails) <= 1
            /\ \A i \in 1..Len(bl) : NodeShape(s, bl[i])

\* C30: bounded node shape under put. After create followed by any sequence
\* of successful puts, repeated extensions included, every Indirect holds at
\* most F Direct children, all of them before any StoredBlock child, and at
\* most one StoredBlock tail.
C30_NodeShape == BuiltOk => NodeShape(store, tree)

\* C28: termination of create. Each call of BlockType::create made through a
\* StoredBlock tail receives strictly fewer bytes than the call that makes
\* it, for every byte vector, every configured fanout and buckets of
\* positive max_size.
C28_Termination ==
    [][(last.op = "create_call" /\ last'.op = "create_call")
          => Len(last'.data) < Len(last.data)]_vars

\* the blob a Stored names
Blob(s, stored) == s[<<stored.bucket, stored.descriptor>>]

\* the backend operations the call on the Directory issued
Ops == SubSeq(last.log, last.pos + 1, Len(last.log))

\* C21: directory names are unique and never overwritten. add(name, inode)
\* and put(name, stored) return Err when the name is present and leave the
\* mapping and the metadata as they were; the add creates no Stored, it
\* issues no backend operation.
C21_UniqueNames ==
    (/\ last.op \in {"add", "dput"}
     /\ last.name \in DOMAIN last.pre[last.target].children)
        => /\ last.st = "err"
           /\ tree[last.target] = last.pre[last.target]
           /\ Ops = <<>>
           /\ last.pos = 0 => store = last.prestore

C21_Witness ==
    /\ last.op = "add"
    /\ last.name \in DOMAIN last.pre.dir.children
    /\ last.pos > 0
    /\ last.st = "err"
    /\ Cardinality(DOMAIN tree.dir.children) = 2
    /\ tree.dir.metadata.size = Size("Entries", 2)

\* C23: move preserves the object. unlink(name) issues no backend operation
\* and returns the Stored that was mapped to name; a put(name2, that Stored)
\* on either directory makes get(name2) return that same Stored, and the blob
\* it names is untouched by both calls.
C23_Move ==
    /\ (last.op = "unlink" /\ last.name \in DOMAIN last.pre.dir.children)
          => /\ last.st = "ok"
             /\ last.log = <<>>
             /\ store = last.prestore
             /\ last.val = last.pre.dir.children[last.name]
             /\ tree.clip = last.val
             /\ last.name \notin DirectoryList(tree.dir)
    /\ (last.op = "dput" /\ last.st = "ok")
          => /\ last.log = <<>>
             /\ store = last.prestore
             /\ DirectoryGet(Quiet(store), tree[last.target], last.name).st = "ok"
             /\ DirectoryGet(Quiet(store), tree[last.target], last.name).val.ret = last.pre.clip
             /\ DirectoryList(tree[last.target])
                  = DirectoryList(last.pre[last.target]) \cup {last.name}
    /\ (last.op = "dget" /\ last.st = "ok")
          => /\ last.log = <<>>
             /\ last.val = tree[last.target].children[last.name]

C23_Witness ==
    /\ last.op = "dput"
    /\ last.st = "ok"
    /\ last.target = "dst"
    /\ last.name \notin DirectoryList(tree.dir)
    /\ tree.dst.children[last.name] = last.pre.clip
    /\ Blob(store, last.pre.clip).val.t = "f"
    /\ HasTail(Blob(store, last.pre.clip).val.data)

\* C25: the metadata of a Directory tracks its entries. After a successful
\* add, put, remove, unlink or delete the metadata size of the Directory is
\* Entries(n), n the number of entries of its children map.
C25_EntryCount ==
    (/\ last.op \in {"add", "dput", "remove", "unlink", "ddelete"}
     /\ last.st = "ok")
        => tree[last.target].metadata.size
             = Size("Entries", Cardinality(DOMAIN tree[last.target].children))

\* the Stored of the entry the call was given
Child == last.pre.dir.children[last.name]

\* the handle of a Stored
At(stored) == <<stored.bucket, stored.descriptor>>

\* C22: the protocol of Directory.remove. On an absent name it returns Err,
\* issues no backend operation and leaves the directory as it was.  On a
\* present name the entry is no longer listed; the inode is fetched and its
\* recursive delete attempted before the delete of the child Stored, which
\* is attempted even when the fetch or the delete of the inode failed, and
\* is the last operation; Err is returned iff a step failed.
C22_Remove ==
    last.op = "remove"
        => IF last.name \notin DOMAIN last.pre.dir.children
           THEN /\ last.st = "err"
                /\ last.log = <<>>
                /\ tree.dir = last.pre.dir
                /\ store = last.prestore
           ELSE /\ last.st \in {"ok", "err"}
                /\ last.name \notin DirectoryList(tree.dir)
                /\ Len(last.log) >= 2
                /\ last.log[1].op = "get" /\ Handle(last.log[1]) = At(Child)
                /\ Issued(last.log, "delete", At(Child)) = {Len(last.log)}
                /\ last.st = "err" <=> ~NoFault(last.log)

\* C24: Directory.delete sweeps every child. For each entry it fetches the
\* inode, attempts its recursive delete and then the delete of the child
\* Stored, whatever failed before; the children map is empty afterwards; the
\* result is Ok iff no step failed, otherwise an Err that holds the error of
\* every step that failed.
C24_DeleteSweep ==
    last.op = "ddelete"
        => /\ last.st \in {"ok", "err"}
           /\ \A n \in DOMAIN last.pre.dir.children :
                 /\ Cardinality(Issued(last.log, "get", At(last.pre.dir.children[n]))) = 1
                 /\ Cardinality(Issued(last.log, "delete", At(last.pre.dir.children[n]))) = 1
                 /\ \A a \in Issued(last.log, "get", At(last.pre.dir.children[n])),
                       b \in Issued(last.log, "delete", At(last.pre.dir.children[n])) : a < b
           /\ DirectoryList(tree.dir) = {}
           /\ last.st = "ok" <=> NoFault(last.log)
           /\ Len(last.err) = Cardinality(Failures(last.log))

Refused == \E i \in 1..Len(last.log) : ~last.log[i].ok

\* C27: failures surface at the user action. Whenever a Stored, Directory,
\* File or Block operation invoked by rm, up, paste or down returns an error,
\* the command returns Err with a non-empty message, which the shell loop
\* prints; no such error is turned into Ok.
C27_Surface ==
    (last.op \in {"rm", "up", "paste", "down"} /\ Refused)
        => (last.st = "err" /\ last.err # <<>>)

\* the chunks fetched before position a of the log
FetchedBefore(log, a) == {b \in 1..(a - 1) : log[b].ok /\ log[b].ty = "bytes"}

\* the Ok items before position i of the stream
OkBefore(items, i) == {j \in 1..(i - 1) : items[j].ok}

\* C31: read errors are never silent. If fetching or decoding any blob fails
\* during get on a tree, the stream yields an Err item at the position of
\* the failing child: after the chunks fetched before the failure and before
\* those fetched after it. A stream of Ok chunks only concatenates to the
\* complete stored contents.
C31_ReadErrors ==
    last.op = "get"
        => /\ \A a \in Failures(last.log) :
                 \E i \in 1..Len(last.items) :
                    /\ ~last.items[i].ok
                    /\ Cardinality(OkBefore(last.items, i))
                         = Cardinality(FetchedBefore(last.log, a))
           /\ AllOk(last.items)
                 => /\ NoFault(last.log)
                    /\ Flatten(last.items, 1) = last.created

C31_Witness ==
    /\ last.op = "get"
    /\ Cardinality(Failures(last.log)) = 1
    /\ \E i, j, k \in 1..Len(last.items) :
          /\ i < j /\ j < k
          /\ last.items[i].ok /\ ~last.items[j].ok /\ last.items[k].ok
    /\ \E a \in Failures(last.log) : last.log[a].op = "get"

\* both creates have returned a tree
BothBuilt == \A p \in TaskIds : tree.task[p].done /\ tree.task[p].st = "ok"

\* C32: independent operations do not interfere. Two BlockType::create calls
\* interleaved at any Source operation return trees whose sets of (bucket,
\* descriptor) handles are disjoint, every Source operation of a task has the
\* outcome it has when the task runs alone, and get on each tree returns
\* exactly the data given to its own create.
C32_Independent ==
    /\ ~tree.diverged
    /\ BothBuilt => AllStored(store, tree.task[1].val) \cap AllStored(store, tree.task[2].val) = {}
    /\ last.op = "get"
          => /\ AllOk(last.items)
             /\ Flatten(last.items, 1) = tree.task[last.p].data

C32_Witness ==
    /\ BothBuilt
    /\ last.op = "get"
    /\ \A p \in TaskIds : Len(tree.task[p].data) = MaxTaskLen /\ HasTail(tree.task[p].val)
    /\ \E i, j \in 1..Len(tree.task[1].got) :
          /\ \E k \in 1..Len(tree.task[2].got) :
                tree.task[1].got[i] < tree.task[2].got[k]
                    /\ tree.task[2].got[k] < tree.task[1].got[j]

\* C33: Stored::create leaves nothing behind on failure. When no bucket
\* accepts the serialized size it returns Err without any Source operation,
\* and whenever it returns Err no descriptor reserved by the call remains
\* allocated in any bucket.
C33_NothingBehind ==
    (last.op = "stored_create" /\ last.st = "err")
        => /\ last.err[1][1] = "No bucket found" => last.log = <<>>
           /\ DOMAIN store = DOMAIN last.prestore

\* the directories that are persisted: the root and every Directory stored
\* in a bucket
Persisted(s, sh) ==
    {Root(sh)} \cup {s[h].val : h \in {k \in DOMAIN s : s[k].ty = "inode" /\ s[k].val.t = "dir"}}

\* the Stored is linked under a name in a persisted directory
Linked(s, sh, stored) ==
    \E d \in Persisted(s, sh) : \E n \in DOMAIN d.children : d.children[n] = stored

\* the directory the last command ran in, as it was
CwdBefore == CwdDirectory(Quiet(last.prestore), last.pre)

\* C34: shell move safety. At every command boundary a Stored taken by cut
\* is held in the clipboard or linked under a name in a persisted directory:
\* after cut the entry it names is in one of the two places, after paste the
\* Stored that was in the clipboard is, and a paste that returns Err leaves
\* it on the clipboard.
C34_MoveSafety ==
    /\ (last.op = "cut" /\ CwdBefore.st = "ok" /\ last.name \in DirectoryList(CwdBefore.val))
          => \/ tree.clipboard = CwdBefore.val.children[last.name]
             \/ Linked(store, tree, CwdBefore.val.children[last.name])
    /\ (last.op = "paste" /\ last.pre.clipboard # NoStored)
          => /\ \/ tree.clipboard = last.pre.clipboard
                \/ Linked(store, tree, last.pre.clipboard)
             /\ last.st = "err" => tree.clipboard = last.pre.clipboard

\* up returned Err after File::create had succeeded: Directory::add rejected
\* the name, or the backend refused to store the inode of the file or of the
\* directory
FailedAfterFileCreate ==
    /\ last.op = "up"
    /\ last.st = "err"
    /\ \/ last.err[1][1] = "already exists"
       \/ \E a \in Failures(last.log) : last.log[a].ty = "inode"

\* the blobs the last command reserved
Reserved == {Handle(last.log[a]) : a \in {b \in 1..Len(last.log) :
                                             last.log[b].op = "create" /\ last.log[b].ok}}

\* C35: a failed upload leaves no orphan blobs. If up returns Err after
\* File::create has succeeded, every blob created for that file has been
\* deleted from its bucket.
C35_NoOrphans == FailedAfterFileCreate => Reserved \cap DOMAIN store = {}

\* C36: root read-your-writes. After save_root(r) returns, the next
\* get_root() with no save in between returns a Directory equal to r, in
\* either mode, whether the S3 is not configured, reachable, or failing during
\* the save or the read.
C36_ReadYourWrites ==
    [][(last.op = "save_root" /\ last.st = "ok" /\ last'.op = "get_root")
          => /\ last'.async.root = last.async.root
             /\ last'.blocking.root = last.blocking.root]_vars

RECURSIVE Walk(_, _, _, _)
\* the inode at path p below the inode given, in store s
Walk(s, inode, p, i) ==
    IF i > Len(p) THEN [ok |-> TRUE, inode |-> inode]
    ELSE IF inode.t # "dir" THEN [ok |-> FALSE, inode |-> inode]
    ELSE IF p[i] \notin DOMAIN inode.children THEN [ok |-> FALSE, inode |-> inode]
    ELSE IF At(inode.children[p[i]]) \notin DOMAIN s THEN [ok |-> FALSE, inode |-> inode]
    ELSE Walk(s, s[At(inode.children[p[i]])].val, p, i + 1)

\* the directory the shell is in, as it is persisted now
CwdNow == CwdDirectory(Quiet(store), tree).val

\* C37: up_tree reproduces the local hierarchy. After up_tree of a local tree
\* from the root or from a directory below it, every local sub-directory is
\* a Directory entry and every local file an entry holding its bytes, at the
\* same path below the current directory as it has below the root of the
\* local tree.
C37_Hierarchy ==
    (last.op = "up_tree" /\ last.st = "ok")
        => \A i \in 1..Len(last.name) :
              /\ Walk(store, CwdNow, last.name[i].path, 1).ok
              /\ IF last.name[i].dir
                 THEN Walk(store, CwdNow, last.name[i].path, 1).inode.t = "dir"
                 ELSE /\ Walk(store, CwdNow, last.name[i].path, 1).inode.t = "f"
                      /\ Read(store, Walk(store, CwdNow, last.name[i].path, 1).inode.data)
                           = last.name[i].data

\* C38: the shell never terminates while the clipboard holds a Stored. exit
\* with a non-empty clipboard returns an error and the loop continues, and no
\* other path leaves the loop in that state.
C38_ExitClipboard ==
    /\ (last.op = "exit" /\ last.pre.clipboard # NoStored) => last.st = "err"
    /\ last.st = "stopped" => tree.clipboard = NoStored

\* all but the last element
Front(seq) == IF seq = <<>> THEN seq ELSE SubSeq(seq, 1, Len(seq) - 1)

\* C39: the working-directory stacks stay aligned. path and stored_cwd have
\* equal length; cd <name> pushes the name and the Stored listed under it in
\* the directory the shell was in, cd .. pops both, root clears both, a cd
\* that returns Err leaves both unchanged, and no other command changes
\* them.
C39_Aligned ==
    /\ Len(tree.path) = Len(tree.cwd)
    /\ (last.op = "cd" /\ last.st = "ok" /\ last.name # "..")
          => /\ tree.path = Append(last.pre.path, last.name)
             /\ last.name \in DirectoryList(CwdBefore.val)
             /\ tree.cwd = Append(last.pre.cwd, CwdBefore.val.children[last.name])
    /\ (last.op = "cd" /\ last.st = "ok" /\ last.name = "..")
          => tree.path = Front(last.pre.path) /\ tree.cwd = Front(last.pre.cwd)
    /\ (last.op = "cd" /\ last.st = "err")
          => tree.path = last.pre.path /\ tree.cwd = last.pre.cwd
    /\ last.op = "root" => tree.path = <<>> /\ tree.cwd = <<>>
    /\ last.op \in {"mkdir", "up"}
          => tree.path = last.pre.path /\ tree.cwd = last.pre.cwd

C39_Witness ==
    /\ last.op = "cd"
    /\ last.st = "ok"
    /\ last.name = ".."
    /\ Len(last.pre.cwd) = MaxCwd
    /\ tree.path = <<"x">>
    /\ tree.cwd = <<Root(tree).children["x"]>>

====
